---- MODULE Spec2Model ----
(***************************************************************************)
(* Verification model of the Video-Compressor core: the compressed         *)
(* container (CompressedFormat), the bilinear resampling codec and the      *)
(* encode / decode pipelines (VideoEncoder, VideoDecoder).                  *)
(*                                                                          *)
(* Conventions                                                              *)
(*  - a byte is a number in 0..255, a buffer is a sequence of bytes;        *)
(*  - frame rates are exact decimals counted in units of 1/10000 fps, so    *)
(*    fps * 1000 is the rational fps10k / 10;                               *)
(*  - every operation of the source is a pure operator returning the new    *)
(*    object state together with the value the C++ function returns; the    *)
(*    actions apply these operators to the variables.                       *)
(***************************************************************************)
EXTENDS Integers, Sequences, FiniteSets, TLC

VARIABLES
    disk,        \* bytes of the container file on disk
    cf,          \* the CompressedFormat object
    frameData,   \* caller's buffer handed to readFrame (out-parameter)
    isKeyFrame,  \* caller's flag handed to readFrame (out-parameter)
    ret,         \* [op, val]: last operation and the value it returned
    written,     \* history: records writeFrame accepted since the file was created
    sessionOk,   \* history: the file on disk is the output of a failure-free write session
    hdrIn,       \* history: arguments of the openForWriting that created the file
    readBack,    \* history: records readFrame returned since openForReading
    readEnded,   \* history: a readFrame since openForReading returned false
    readLog,     \* history: [left, need] bytes left in the file before the last readFrame
                 \*          and bytes the record at that place declares (left = -1: none yet)
    mode,        \* history: "write" / "read" while the last open call holds a file, else "none"
    m_algorithm, \* the codec object (BilinearDownsampleAlgorithm)
    cIn,         \* history: the frame last handed to compressFrame and its factor; the
                 \*          calls returned since construction or the last reset and the
                 \*          sum of the ratios of these compressFrame calls
    cPayload,    \* the payload compressFrame returned last
    cOut,        \* outcome of the last decompressFrame
    enc,         \* the VideoEncoder object and the position of its encode() call
    fr,          \* the FileReader object (frame source)
    video,       \* the input video file
    ioFailed,    \* history: an I/O call of the current pipeline run has failed
    dec,         \* the VideoDecoder object and the position of its decode() call
    fw,          \* the FileWriter object (frame sink)
    decLog,      \* history: payloads handed to decompressFrame by the decode run
    sinkLog,     \* history: frames handed to the sink by the decode run
    source,      \* history: how the container file given to the decode run was made
    fsys,        \* which of the files named in the configuration exist
    m_algorithm_creators, \* AlgorithmFactory::m_algorithm_creators: name -> creator
    call,        \* the last AlgorithmFactory call: its arguments and what it returned
    bound,       \* history: per name, the creator of the last successful register that
                 \*          no unregister of the name has followed ("none" otherwise)
    m_cuda_available, \* CudaBilinearDownsampleAlgorithm::m_cuda_available
    gpuLog       \* history: the device failure met by the last GPU compress / decompress

containerVars == <<disk, cf, frameData, isKeyFrame, ret, written, sessionOk, hdrIn,
                   readBack, readEnded, readLog, mode>>

codecVars == <<m_algorithm, cIn, cPayload, cOut>>

encoderVars == <<enc, fr, video>>

decoderVars == <<dec, fw, decLog, sinkLog, source>>

pipelineVars == <<encoderVars, decoderVars, ioFailed, fsys>>

registryVars == <<m_algorithm_creators, call, bound>>

gpuVars == <<m_cuda_available, gpuLog>>

vars == <<containerVars, codecVars, pipelineVars, registryVars, gpuVars>>

-----------------------------------------------------------------------------
(* Bounds of the model *)

MaxPayload == 1      \* longest payload handed to writeFrame in the container runs
MaxRecords == 2      \* most records written into one file in the container runs
MaxDim == 5          \* largest frame width and height in the codec runs
MaxCalls == 2        \* most compressFrame (and decompressFrame) calls counted in the codec runs
MaxFrames == 3       \* longest video and container (in frames) next to the 10-frame example

-----------------------------------------------------------------------------
(* Integer <-> byte conversions (memcpy of little-endian machine integers) *)

RECURSIVE Pow256(_)
Pow256(i) == IF i = 0 THEN 1 ELSE 256 * Pow256(i - 1)

\* the n low-order bytes of a non-negative u, least significant first
LE(u, n) == [i \in 1..n |-> (u \div Pow256(i - 1)) % 256]

RECURSIVE FromLE(_)
FromLE(bs) == IF bs = <<>> THEN 0 ELSE bs[1] + 256 * FromLE(Tail(bs))

INT32_MAX == 2147483647

\* memcpy(dst, &n, 4) for an int32 n: two's complement, little-endian
Int32Bytes(n) == IF n >= 0 THEN LE(n, 4) ELSE [i \in 1..4 |-> 255 - LE(-n - 1, 4)[i]]

\* memcpy(&n, src, 4) for an int32 n
BytesToInt32(bs) ==
    IF bs[4] >= 128 THEN -FromLE([i \in 1..4 |-> 255 - bs[i]]) - 1 ELSE FromLE(bs)

\* memcpy(&u, src, 4) for a uint32 u; values of 2^31 and more are outside the
\* integers of the checker and are represented by INT32_MAX (no file of the model
\* holds that many bytes, so such a size is always larger than what is left)
BytesToUInt32(bs) == IF bs[4] >= 128 THEN INT32_MAX ELSE FromLE(bs)

\* memory of an object after a (possibly partial) read of new bytes over it
Overlay(old, new) == [i \in 1..Len(old) |-> IF i <= Len(new) THEN new[i] ELSE old[i]]

\* std::vector::resize(n): keep the first n elements, zero-fill the rest
Resize(v, n) == [i \in 1..n |-> IF i <= Len(v) THEN v[i] ELSE 0]

Prefix(s, n) == SubSeq(s, 1, n)

IsPrefix(s, t) == Len(s) <= Len(t) /\ Prefix(t, Len(s)) = s

-----------------------------------------------------------------------------
(* CompressedFormat: include/utils/compressed_format.hpp *)

HEADER_SIZE == 5          \* record header: type byte + 32-bit size
FILE_HEADER_BYTES == 14   \* width, height, fps (4 bytes each) + algorithm id (2)

\* mutant: the frame rate is rounded to the nearest 1/1000 instead of truncated
FpsToInt_Rounded(fps10k) ==
    IF fps10k >= 0 THEN (fps10k + 5) \div 10 ELSE -((5 - fps10k) \div 10)

\* static_cast<int32_t>(fps * 1000): truncation toward zero
FpsToInt(fps10k) == IF fps10k >= 0 THEN fps10k \div 10 ELSE -((-fps10k) \div 10)

\* static_cast<double>(fps_int) / 1000.0, in units of 1/10000
IntToFps(fpsInt) == fpsInt * 10

\* mutant: the two frame type codes are swapped on the writing side
FrameTypeByte_Swapped(isKey) == IF isKey THEN 1 ELSE 0

\* uint8_t frameType = isKeyFrame ? 0 : 1
FrameTypeByte(isKey) == IF isKey THEN 0 ELSE 1

\* isKeyFrame = (frameType == 0)
FrameTypeIsKey(b) == b = 0

\* the constructor: m_isWriteMode and m_algorithmId are left uninitialised
NewCompressedFormat(wm, alg) ==
    [open |-> FALSE, m_isOpen |-> FALSE, writeMode |-> wm, fail |-> FALSE, eof |-> FALSE,
     pos |-> 0, width |-> 0, height |-> 0, fps |-> 0, algId |-> alg]

\* close(): closes the stream if it is open; the stream's error flags stay,
\* the file position goes with the file
close(c) == [c EXCEPT !.open = FALSE, !.m_isOpen = FALSE, !.pos = 0]

\* mutant: a short read raises eofbit only, failbit is not set
streamRead_NoFailbit(c, d, n) ==
    IF c.fail \/ c.eof
    THEN [bytes |-> <<>>, cf |-> [c EXCEPT !.fail = TRUE]]
    ELSE IF Len(d) - c.pos >= n
         THEN [bytes |-> SubSeq(d, c.pos + 1, c.pos + n), cf |-> [c EXCEPT !.pos = c.pos + n]]
         ELSE [bytes |-> SubSeq(d, c.pos + 1, Len(d)),
               cf |-> [c EXCEPT !.pos = Len(d), !.eof = TRUE]]

\* std::istream::read of n bytes at the read position
streamRead(c, d, n) ==
    IF c.fail \/ c.eof
    THEN [bytes |-> <<>>, cf |-> [c EXCEPT !.fail = TRUE]]
    ELSE IF Len(d) - c.pos >= n
         THEN [bytes |-> SubSeq(d, c.pos + 1, c.pos + n), cf |-> [c EXCEPT !.pos = c.pos + n]]
         ELSE [bytes |-> SubSeq(d, c.pos + 1, Len(d)),
               cf |-> [c EXCEPT !.pos = Len(d), !.eof = TRUE, !.fail = TRUE]]

\* the 14 header bytes openForWriting emits
HeaderBytes(w, h, fps10k, alg) ==
    Int32Bytes(w) \o Int32Bytes(h) \o Int32Bytes(FpsToInt(fps10k)) \o LE(alg, 2)

\* openForWriting(filename, width, height, fps, algorithmId).
\* openOk: the file could be created; failAt: 0 = all four header writes succeed,
\* i in 1..4 = the i-th write fails (the stream then ignores the later ones).
openForWriting(c, d, w, h, fps10k, alg, openOk, failAt) ==
    LET c1 == [close(c) EXCEPT !.writeMode = TRUE] IN
    IF ~openOk
    THEN [cf |-> [c1 EXCEPT !.fail = TRUE], disk |-> d, ret |-> FALSE]
    ELSE LET c2 == [c1 EXCEPT !.open = TRUE, !.m_isOpen = TRUE, !.fail = (failAt # 0),
                              !.eof = FALSE, !.pos = 0, !.width = w, !.height = h,
                              !.fps = fps10k, !.algId = alg]
             hb == HeaderBytes(w, h, fps10k, alg)
             n  == IF failAt = 0 THEN FILE_HEADER_BYTES ELSE 4 * (failAt - 1)
         IN [cf |-> c2, disk |-> Prefix(hb, n), ret |-> ~c2.fail]

\* openForReading(filename).  uninit: the indeterminate initial value of the local fps_int
openForReading(c, d, openOk, uninit) ==
    LET c1 == [close(c) EXCEPT !.writeMode = FALSE] IN
    IF ~openOk
    THEN [cf |-> [c1 EXCEPT !.fail = TRUE], ret |-> FALSE]
    ELSE LET c2 == [c1 EXCEPT !.open = TRUE, !.m_isOpen = TRUE, !.fail = FALSE,
                              !.eof = FALSE, !.pos = 0]
             r1 == streamRead(c2, d, 4)
             r2 == streamRead(r1.cf, d, 4)
             r3 == streamRead(r2.cf, d, 4)
             r4 == streamRead(r3.cf, d, 2)
             fpsInt == BytesToInt32(Overlay(Int32Bytes(uninit), r3.bytes))
             c3 == [r4.cf EXCEPT
                      !.width  = BytesToInt32(Overlay(Int32Bytes(c.width), r1.bytes)),
                      !.height = BytesToInt32(Overlay(Int32Bytes(c.height), r2.bytes)),
                      !.fps    = IntToFps(fpsInt),
                      !.algId  = FromLE(Overlay(LE(c.algId, 2), r4.bytes))]
         IN IF c3.fail THEN [cf |-> close(c3), ret |-> FALSE]
                       ELSE [cf |-> c3, ret |-> TRUE]

\* mutant: the write guard forgets the mode flag
writeFrameAllowed_NoMode(c) == c.open

\* the guard of writeFrame: if (!m_file.is_open() || !m_isWriteMode) return false;
writeFrameAllowed(c) == c.open /\ c.writeMode

\* the bytes writeFrame hands to the stream in one write
RecordBytes(data, isKey) == <<FrameTypeByte(isKey)>> \o LE(Len(data), 4) \o data

\* writeFrame(frameData, isKeyFrame).  cut: -1 = the write succeeds,
\* n >= 0 = the write fails after n bytes reached the file.
writeFrame(c, d, data, isKey, cut) ==
    IF ~writeFrameAllowed(c) THEN [cf |-> c, disk |-> d, ret |-> FALSE]
    ELSE IF c.fail THEN [cf |-> c, disk |-> d, ret |-> FALSE]
    ELSE IF cut = -1
         THEN [cf |-> c, disk |-> d \o RecordBytes(data, isKey), ret |-> TRUE]
         ELSE [cf |-> [c EXCEPT !.fail = TRUE],
               disk |-> d \o Prefix(RecordBytes(data, isKey), cut), ret |-> FALSE]

\* the guard of readFrame: if (!m_file.is_open() || m_isWriteMode) return false;
readFrameAllowed(c) == c.open /\ ~c.writeMode

\* the test on the record header read: anything short of 5 bytes is refused
headerRefused(gcount, c) ==
    \/ (c.eof /\ gcount = 0)
    \/ (gcount < HEADER_SIZE \/ c.fail)

\* readFrame(frameData, isKeyFrame): fd, key are the caller's variables
readFrame(c, d, fd, key) ==
    IF ~readFrameAllowed(c) THEN [cf |-> c, ret |-> FALSE, frameData |-> fd, isKeyFrame |-> key]
    ELSE LET h == streamRead(c, d, HEADER_SIZE) IN
         IF headerRefused(Len(h.bytes), h.cf)
         THEN [cf |-> h.cf, ret |-> FALSE, frameData |-> fd, isKeyFrame |-> key]
         ELSE LET header == Overlay(<<0, 0, 0, 0, 0>>, h.bytes)
                  frameSize == BytesToUInt32(SubSeq(header, 2, 5))
                  p == streamRead(h.cf, d, frameSize)
              IN [cf |-> p.cf, ret |-> ~p.cf.fail,
                  frameData |-> Overlay(Resize(fd, frameSize), p.bytes),
                  isKeyFrame |-> FrameTypeIsKey(header[1])]

\* isOpen()
isOpen(c) == c.open

-----------------------------------------------------------------------------
(* BilinearDownsampleAlgorithm: src/algorithms/bilinear_downsample_algorithm.cpp *)
(* float arithmetic is modelled by exact rational arithmetic: a ratio is a pair   *)
(* numerator / denominator, a division by zero gives a value whose conversion to  *)
(* int is undefined.                                                              *)

WIDTH_BYTES == 4
HEIGHT_BYTES == 4
METADATA_BYTES == WIDTH_BYTES + HEIGHT_BYTES

KEY_FRAME == "KEY_FRAME"
DELTA_FRAME == "DELTA_FRAME"

RECURSIVE Gcd(_, _)
Gcd(a, b) == IF b = 0 THEN a ELSE Gcd(b, a % b)

\* integer division of C++: the quotient is truncated toward zero
CDiv(a, b) ==
    IF b > 0 THEN (IF a >= 0 THEN a \div b ELSE -((-a) \div b))
             ELSE (IF a >= 0 THEN -(a \div (-b)) ELSE (-a) \div (-b))

Min(a, b) == IF a < b THEN a ELSE b
Max(a, b) == IF a > b THEN a ELSE b

\* a double as a reduced fraction; den = 0 stands for inf (num = 1) and NaN (num = 0)
Ratio(n, d) ==
    IF d = 0 THEN [num |-> IF n = 0 THEN 0 ELSE 1, den |-> 0]
    ELSE LET g == Gcd(n, d) IN IF g = 0 THEN [num |-> 0, den |-> 1]
                                          ELSE [num |-> n \div g, den |-> d \div g]

\* mutant: the new ratio is averaged with the old average, whatever n
RunningAverage_Halved(avg, x, n) ==
    IF avg.den = 0 \/ x.den = 0 THEN Ratio(0, 0)
    ELSE Ratio(avg.num * x.den + x.num * avg.den, avg.den * x.den * 2)

\* ((avg * (n - 1)) + x) / n on doubles
RunningAverage(avg, x, n) ==
    IF (avg.den = 0 /\ avg.num = 0) \/ (x.den = 0 /\ x.num = 0) THEN Ratio(0, 0)
    ELSE IF avg.den = 0 THEN (IF n = 1 THEN Ratio(0, 0) ELSE Ratio(1, 0))
    ELSE IF x.den = 0 THEN Ratio(1, 0)
    ELSE Ratio(avg.num * (n - 1) * x.den + x.num * avg.den, avg.den * x.den * n)

\* the constructor
NewAlgorithm ==
    [factor |-> 2, frames_compressed |-> 0, frames_decompressed |-> 0,
     average_compression_ratio |-> Ratio(0, 1)]

\* reset()
reset(a) ==
    [a EXCEPT !.frames_compressed = 0, !.frames_decompressed = 0,
              !.average_compression_ratio = Ratio(0, 1)]

\* mutant: the factor is not clamped
FactorOf_Unclamped(quality) == 4 - CDiv(quality, 50)

\* m_downsample_factor = 4 - (quality / 50), clamped into 2..4
FactorOf(quality) == Max(2, Min(4, 4 - CDiv(quality, 50)))

\* initialize(config): always returns true
initialize(a, quality) == [a EXCEPT !.factor = FactorOf(quality)]

\* calculateInterpolationParams(pos, ratio = num / den, max_dim); the fraction is
\* fnum / den.  ub: pos * ratio is NaN or infinite and its conversion to int is undefined
\* mutant: the ceiling is not clamped to the last row / column
calculateInterpolationParams_NoClamp(pos, num, den, max_dim) ==
    IF den = 0 THEN [ub |-> TRUE, floor |-> 0, ceil |-> 0, fnum |-> 0, den |-> 1]
    ELSE LET n  == IF den > 0 THEN pos * num ELSE -(pos * num)
             d  == IF den > 0 THEN den ELSE -den
             fl == CDiv(n, d)
         IN [ub |-> FALSE, floor |-> fl, ceil |-> fl + 1, fnum |-> n - fl * d, den |-> d]

calculateInterpolationParams(pos, num, den, max_dim) ==
    IF den = 0 THEN [ub |-> TRUE, floor |-> 0, ceil |-> 0, fnum |-> 0, den |-> 1]
    ELSE LET n  == IF den > 0 THEN pos * num ELSE -(pos * num)
             d  == IF den > 0 THEN den ELSE -den
             fl == CDiv(n, d)
         IN [ub |-> FALSE, floor |-> fl, ceil |-> Min(fl + 1, max_dim - 1),
             fnum |-> n - fl * d, den |-> d]

\* getPixelValue(src, src_width, y, x, c) as the offset read; -1 marks a read
\* outside the buffer of srcLen bytes
PixelOffset(srcLen, src_width, y, x, c) ==
    LET i == (y * src_width + x) * 3 + c IN IF i >= 0 /\ i < srcLen THEN i ELSE -1

\* mutant: both neighbours of a row are weighted with the fraction
Blend_SameWeight(src, sw, yp, xp, c) ==
    LET o00 == PixelOffset(Len(src), sw, yp.floor, xp.floor, c)
        o01 == PixelOffset(Len(src), sw, yp.floor, xp.ceil, c)
        o10 == PixelOffset(Len(src), sw, yp.ceil, xp.floor, c)
        o11 == PixelOffset(Len(src), sw, yp.ceil, xp.ceil, c)
    IN IF o00 < 0 \/ o01 < 0 \/ o10 < 0 \/ o11 < 0 THEN -1
       ELSE LET top    == src[o00 + 1] * xp.fnum + src[o01 + 1] * xp.fnum
                bottom == src[o10 + 1] * xp.fnum + src[o11 + 1] * xp.fnum
                v      == top * (yp.den - yp.fnum) + bottom * yp.fnum
                d      == xp.den * yp.den
                r      == IF 2 * v + d >= 0 THEN (2 * v + d) \div (2 * d) ELSE -1
            IN IF r > 255 THEN -1 ELSE r

\* one destination sample: the blend of the four neighbours, + 0.5f, cast to uint8_t
\* (-1: a neighbour lies outside the source buffer or the value is outside 0..255)
Blend(src, sw, yp, xp, c) ==
    LET o00 == PixelOffset(Len(src), sw, yp.floor, xp.floor, c)
        o01 == PixelOffset(Len(src), sw, yp.floor, xp.ceil, c)
        o10 == PixelOffset(Len(src), sw, yp.ceil, xp.floor, c)
        o11 == PixelOffset(Len(src), sw, yp.ceil, xp.ceil, c)
    IN IF o00 < 0 \/ o01 < 0 \/ o10 < 0 \/ o11 < 0 THEN -1
       ELSE LET top    == src[o00 + 1] * (xp.den - xp.fnum) + src[o01 + 1] * xp.fnum
                bottom == src[o10 + 1] * (xp.den - xp.fnum) + src[o11 + 1] * xp.fnum
                v      == top * (yp.den - yp.fnum) + bottom * yp.fnum
                d      == xp.den * yp.den
                r      == IF 2 * v + d >= 0 THEN (2 * v + d) \div (2 * d) ELSE -1
            IN IF r > 255 THEN -1 ELSE r

\* the loop nest shared by downsampleBilinear and upsampleBilinear, with
\* x_ratio = xnum / xden and y_ratio = ynum / yden
Resample(src, sw, sh, dw, dh, xnum, xden, ynum, yden) ==
    IF dw <= 0 \/ dh <= 0 THEN [ub |-> FALSE, dst |-> <<>>]
    ELSE LET yps == [y \in 0..(dh - 1) |-> calculateInterpolationParams(y, ynum, yden, sh)]
             xps == [x \in 0..(dw - 1) |-> calculateInterpolationParams(x, xnum, xden, sw)]
             bad == (\E y \in 0..(dh - 1) : yps[y].ub) \/ (\E x \in 0..(dw - 1) : xps[x].ub)
             px  == [i \in 1..(dw * dh * 3) |->
                       LET y == (i - 1) \div (dw * 3)
                           x == ((i - 1) % (dw * 3)) \div 3
                           c == (i - 1) % 3
                       IN IF bad THEN -1 ELSE Blend(src, sw, yps[y], xps[x], c)]
         IN [ub |-> bad \/ (\E i \in 1..(dw * dh * 3) : px[i] < 0), dst |-> px]

\* downsampleBilinear: x_ratio = (src_width - 1) / dst_width
downsampleBilinear(src, sw, sh, dw, dh) ==
    Resample(src, sw, sh, dw, dh, sw - 1, dw, sh - 1, dh)

\* upsampleBilinear: x_ratio = (src_width - 1) / (dst_width - 1)
upsampleBilinear(src, sw, sh, dw, dh) ==
    Resample(src, sw, sh, dw, dh, sw - 1, dw - 1, sh - 1, dh - 1)

\* mutant: the payload announces the downsampled dimensions
compressFrame_TargetDims(a, frame) ==
    LET target_width  == CDiv(frame.width, a.factor)
        target_height == CDiv(frame.height, a.factor)
        down  == downsampleBilinear(frame.data, frame.width, frame.height,
                                    target_width, target_height)
    IN [algorithm |-> [a EXCEPT !.frames_compressed = a.frames_compressed + 1],
        ub |-> down.ub,
        payload |-> Int32Bytes(target_width) \o Int32Bytes(target_height) \o down.dst]

\* mutant: a delta frame is stored as an all-zero difference
compressFrame_DeltaEmpty(a, frame) ==
    LET target_width  == CDiv(frame.width, a.factor)
        target_height == CDiv(frame.height, a.factor)
        down  == downsampleBilinear(frame.data, frame.width, frame.height,
                                    target_width, target_height)
    IN [algorithm |-> [a EXCEPT !.frames_compressed = a.frames_compressed + 1],
        ub |-> down.ub,
        payload |-> Int32Bytes(frame.width) \o Int32Bytes(frame.height)
                    \o (IF frame.type = "DELTA_FRAME"
                        THEN [i \in 1..Len(down.dst) |-> 0] ELSE down.dst)]

\* compressFrame(frame): the payload and the updated statistics
compressFrame(a, frame) ==
    LET target_width  == CDiv(frame.width, a.factor)
        target_height == CDiv(frame.height, a.factor)
        down  == downsampleBilinear(frame.data, frame.width, frame.height,
                                    target_width, target_height)
        ratio == Ratio(frame.width * frame.height * 3, target_width * target_height * 3)
        n     == a.frames_compressed + 1
    IN [algorithm |-> [a EXCEPT !.frames_compressed = n,
                          !.average_compression_ratio =
                              RunningAverage(a.average_compression_ratio, ratio, n)],
        ub |-> down.ub,
        payload |-> Int32Bytes(frame.width) \o Int32Bytes(frame.height) \o down.dst]

Frame(w, h, data, ts, type) ==
    [width |-> w, height |-> h, data |-> data, timestamp |-> ts, type |-> type]

\* bytes a read outside a buffer may deliver
JunkBytes == {0, 255}

\* decompressFrame(compressed_data): the set of outcomes.  A call that reads
\* outside the payload or converts a NaN has undefined behaviour: it may abort
\* ("crash") or return a frame filled from whatever the stray reads delivered.
decompressFrame(a, payload) ==
    LET crash == [status |-> "crash", frame |-> Frame(0, 0, <<>>, 0, KEY_FRAME), algorithm |-> a]
        done  == [a EXCEPT !.frames_decompressed = a.frames_decompressed + 1]
    IN
    IF Len(payload) < METADATA_BYTES THEN {crash}
    ELSE LET original_width  == BytesToInt32(SubSeq(payload, 1, 4))
             original_height == BytesToInt32(SubSeq(payload, 5, 8))
             downsampled_width  == CDiv(original_width, a.factor)
             downsampled_height == CDiv(original_height, a.factor)
             size == original_width * original_height * 3
             up   == upsampleBilinear(SubSeq(payload, METADATA_BYTES + 1, Len(payload)),
                                      downsampled_width, downsampled_height,
                                      original_width, original_height)
         IN IF size < 0 THEN {crash}
            ELSE IF up.ub
            THEN {crash} \cup
                 {[status |-> "ok", algorithm |-> done,
                   frame |-> Frame(original_width, original_height,
                                   [i \in 1..size |-> j], 0, KEY_FRAME)] : j \in JunkBytes}
            ELSE {[status |-> "ok", algorithm |-> done,
                   frame |-> Frame(original_width, original_height,
                                   Resize(up.dst, size), 0, KEY_FRAME)]}

-----------------------------------------------------------------------------
(* CudaBilinearDownsampleAlgorithm: the GPU variant of the bilinear codec.      *)
(* The object is the base object (m_algorithm) plus m_cuda_available; the same *)
(* exact rational arithmetic stands for the device's float arithmetic.         *)

\* the constructor: error and deviceCount are the answers of cudaGetDeviceCount
CudaAvailable(error, deviceCount) == ~(error # "cudaSuccess" \/ deviceCount = 0)

\* the device calls of cudaDownsampleBilinear / cudaUpsampleBilinear that can
\* fail, in the order they are made
DeviceSteps ==
    {"cudaMalloc_src", "cudaMalloc_dst", "cudaMemcpy_HostToDevice", "kernel",
     "cudaMemcpy_DeviceToHost"}

\* a std::vector<uint8_t>(n): n zero bytes
ZeroBuffer(n) == [i \in 1..n |-> 0]

\* the offset dst[(y * dst_width + x) * 3 + c] written for destination pixel (x, y)
DestOffset(dst_width, y, x, c) == (y * dst_width + x) * 3 + c

\* threads along one side of a block
BLOCK_SIZE == 16

\* gridSize along one axis: (dst + blockSize - 1) / blockSize blocks
gridSize(dst) == (dst + BLOCK_SIZE - 1) \div BLOCK_SIZE

\* the threads of a launch <<<gridSize, blockSize>>>, each named by its
\* (x, y) = blockIdx * blockDim + threadIdx
LaunchThreads(dst_width, dst_height) ==
    (0..(gridSize(dst_width) * BLOCK_SIZE - 1)) \X (0..(gridSize(dst_height) * BLOCK_SIZE - 1))

\* mutant: the thread stores without testing x and y against the destination
ThreadStores_NoGuard(x, y, dst_width, dst_height) ==
    {DestOffset(dst_width, y, x, c) : c \in 0..2}

\* the offsets of dst thread (x, y) of either kernel stores to
ThreadStores(x, y, dst_width, dst_height) ==
    IF x < dst_width /\ y < dst_height
    THEN {DestOffset(dst_width, y, x, c) : c \in 0..2}
    ELSE {}

\* the body of both kernels for thread (x, y) and channel c, with
\* x_ratio = xnum / xden and y_ratio = ynum / yden: the byte stored into dst,
\* or -1 when the thread reads outside d_src or the value is no uint8_t.
\* With a ratio denominator of 0 src_x is NaN; the source is empty then and
\* every read of the thread is outside d_src.
KernelThread(d_src, src_width, src_height, x, y, c, xnum, xden, ynum, yden) ==
    IF xden <= 0 \/ yden <= 0 THEN -1
    ELSE LET x_floor == CDiv(x * xnum, xden)
             y_floor == CDiv(y * ynum, yden)
             x_ceil  == Min(x_floor + 1, src_width - 1)
             y_ceil  == Min(y_floor + 1, src_height - 1)
             xf      == x * xnum - x_floor * xden
             yf      == y * ynum - y_floor * yden
             i00     == (y_floor * src_width + x_floor) * 3 + c
             i01     == (y_floor * src_width + x_ceil) * 3 + c
             i10     == (y_ceil * src_width + x_floor) * 3 + c
             i11     == (y_ceil * src_width + x_ceil) * 3 + c
         IN IF \E i \in {i00, i01, i10, i11} : i < 0 \/ i >= Len(d_src) THEN -1
            ELSE LET top    == d_src[i00 + 1] * (xden - xf) + d_src[i01 + 1] * xf
                     bottom == d_src[i10 + 1] * (xden - xf) + d_src[i11 + 1] * xf
                     result == top * (yden - yf) + bottom * yf
                     scale  == xden * yden
                     byte   == (2 * result + scale) \div (2 * scale)
                 IN IF result < 0 \/ byte > 255 THEN -1 ELSE byte

\* bilinearDownsampleKernel over the whole grid: thread (x, y) runs when
\* x < dst_width and y < dst_height
bilinearDownsampleKernel(d_src, src_width, src_height, dst_width, dst_height) ==
    [i \in 1..(dst_width * dst_height * 3) |->
        KernelThread(d_src, src_width, src_height,
                     ((i - 1) % (dst_width * 3)) \div 3, (i - 1) \div (dst_width * 3),
                     (i - 1) % 3,
                     src_width - 1, dst_width, src_height - 1, dst_height)]

\* bilinearUpsampleKernel over the whole grid
bilinearUpsampleKernel(d_src, src_width, src_height, dst_width, dst_height) ==
    [i \in 1..(dst_width * dst_height * 3) |->
        KernelThread(d_src, src_width, src_height,
                     ((i - 1) % (dst_width * 3)) \div 3, (i - 1) \div (dst_width * 3),
                     (i - 1) % 3,
                     src_width - 1, dst_width - 1, src_height - 1, dst_height - 1)]

\* the host side shared by cudaDownsampleBilinear and cudaUpsampleBilinear: the
\* set of contents dst may have on return ("crash": the process is aborted).
\* fail names the device call that fails ("ok": none does); each failure path
\* prints a message and returns with dst as the caller passed it.  A launch
\* with an empty grid is itself a failed launch.  A thread reading outside
\* d_src faults (the kernel fails) or reads stray bytes; a host buffer shorter
\* than src_size makes the copy to the device read outside it.
DeviceRun(src, dst, src_size, dst_width, dst_height, out, fail) ==
    IF fail = "cudaMalloc_src" \/ fail = "cudaMalloc_dst" THEN {[status |-> "ok", dst |-> dst]}
    ELSE IF src_size < 0 \/ src_size > Len(src)
    THEN {[status |-> "crash", dst |-> dst]}
         \cup {[status |-> "ok", dst |-> [i \in 1..Len(dst) |-> j]] : j \in JunkBytes}
    ELSE IF fail # "ok" THEN {[status |-> "ok", dst |-> dst]}
    ELSE IF dst_width <= 0 \/ dst_height <= 0 THEN {[status |-> "ok", dst |-> dst]}
    ELSE IF \E i \in 1..Len(out) : out[i] < 0
    THEN {[status |-> "ok", dst |-> dst]}
         \cup {[status |-> "ok", dst |-> [i \in 1..Len(dst) |-> j]] : j \in JunkBytes}
    ELSE {[status |-> "ok", dst |-> out]}

\* cudaDownsampleBilinear(src, dst, ...)
cudaDownsampleBilinear(src, dst, src_width, src_height, dst_width, dst_height, fail) ==
    LET src_size == src_width * src_height * 3 IN
    DeviceRun(src, dst, src_size, dst_width, dst_height,
              IF src_size < 0 \/ src_size > Len(src) THEN <<>>
              ELSE bilinearDownsampleKernel(SubSeq(src, 1, src_size), src_width, src_height,
                                            dst_width, dst_height),
              fail)

\* cudaUpsampleBilinear(src, dst, ...)
cudaUpsampleBilinear(src, dst, src_width, src_height, dst_width, dst_height, fail) ==
    LET src_size == src_width * src_height * 3 IN
    DeviceRun(src, dst, src_size, dst_width, dst_height,
              IF src_size < 0 \/ src_size > Len(src) THEN <<>>
              ELSE bilinearUpsampleKernel(SubSeq(src, 1, src_size), src_width, src_height,
                                          dst_width, dst_height),
              fail)

\* CudaBilinearDownsampleAlgorithm::compressFrame(frame): the set of outcomes
CudaCompressFrame(a, cuda_available, frame, fail) ==
    IF ~cuda_available
    THEN LET r == compressFrame(a, frame) IN
         {[status |-> IF r.ub THEN "crash" ELSE "ok", algorithm |-> r.algorithm,
           payload |-> r.payload]}
    ELSE LET target_width  == CDiv(frame.width, a.factor)
             target_height == CDiv(frame.height, a.factor)
             ratio == Ratio(frame.width * frame.height * 3, target_width * target_height * 3)
             n     == a.frames_compressed + 1
             done  == [a EXCEPT !.frames_compressed = n,
                                !.average_compression_ratio =
                                    RunningAverage(a.average_compression_ratio, ratio, n)]
         IN {[status |-> o.status, algorithm |-> IF o.status = "ok" THEN done ELSE a,
              payload |-> Int32Bytes(frame.width) \o Int32Bytes(frame.height) \o o.dst] :
                o \in cudaDownsampleBilinear(frame.data,
                                             ZeroBuffer(target_width * target_height * 3),
                                             frame.width, frame.height,
                                             target_width, target_height, fail)}

\* CudaBilinearDownsampleAlgorithm::decompressFrame(compressed_data): the set of
\* outcomes
CudaDecompressFrame(a, cuda_available, payload, fail) ==
    LET crash == [status |-> "crash", frame |-> Frame(0, 0, <<>>, 0, KEY_FRAME), algorithm |-> a]
        done  == [a EXCEPT !.frames_decompressed = a.frames_decompressed + 1]
    IN
    IF ~cuda_available THEN decompressFrame(a, payload)
    ELSE IF Len(payload) < METADATA_BYTES THEN {crash}
    ELSE LET original_width  == BytesToInt32(SubSeq(payload, 1, 4))
             original_height == BytesToInt32(SubSeq(payload, 5, 8))
             downsampled_width  == CDiv(original_width, a.factor)
             downsampled_height == CDiv(original_height, a.factor)
             size == original_width * original_height * 3
         IN IF size < 0 THEN {crash}
            ELSE {IF o.status = "crash" THEN crash
                  ELSE [status |-> "ok", algorithm |-> done,
                        frame |-> Frame(original_width, original_height, o.dst, 0, KEY_FRAME)] :
                    o \in cudaUpsampleBilinear(
                              SubSeq(payload, METADATA_BYTES + 1, Len(payload)),
                              ZeroBuffer(size), downsampled_width, downsampled_height,
                              original_width, original_height, fail)}

-----------------------------------------------------------------------------
(* AlgorithmFactory: src/algorithms/base_algorithm.cpp *)
(* m_algorithm_creators is a function from the registered names to their     *)
(* creators; a creator is named after the class it constructs.                *)

\* a null std::unique_ptr<BaseCompressionAlgorithm>
NullAlgorithm ==
    [factor |-> 0, frames_compressed |-> 0, frames_decompressed |-> 0,
     average_compression_ratio |-> Ratio(0, 1)]

\* the static map before any registration
EmptyRegistry == [n \in {} |-> "none"]

\* what calling a creator returns: std::make_unique of the codec class
Construct(creator) == NewAlgorithm

\* mutant: a second registration replaces the creator bound to the name
registerAlgorithm_Overwrite(creators, name, creator) ==
    [ret |-> TRUE,
     creators |-> [n \in DOMAIN creators \cup {name} |->
                      IF n = name THEN creator ELSE creators[n]]]

\* registerAlgorithm(name, creator)
registerAlgorithm(creators, name, creator) ==
    IF name \in DOMAIN creators
    THEN [ret |-> FALSE, creators |-> creators]
    ELSE [ret |-> TRUE,
          creators |-> [n \in DOMAIN creators \cup {name} |->
                           IF n = name THEN creator ELSE creators[n]]]

\* mutant: the name is reported as removed but stays registered
unregisterAlgorithm_Keep(creators, name) ==
    [ret |-> name \in DOMAIN creators, creators |-> creators]

\* unregisterAlgorithm(name): erase(name) > 0
unregisterAlgorithm(creators, name) ==
    [ret |-> name \in DOMAIN creators,
     creators |-> [n \in DOMAIN creators \ {name} |-> creators[n]]]

\* the orders in which the unordered_map may hand out its keys
Orderings(S) ==
    {f \in [1..Cardinality(S) -> S] : \A i, j \in 1..Cardinality(S) : i # j => f[i] # f[j]}

\* getAvailableAlgorithms(): the vector is constructed with size() elements
\* (empty strings) and every name is then pushed behind them
getAvailableAlgorithms(creators) ==
    {[i \in 1..Cardinality(DOMAIN creators) |-> ""] \o order :
        order \in Orderings(DOMAIN creators)}

\* isAlgorithmAvailable(name)
isAlgorithmAvailable(creators, name) == name \in DOMAIN creators

\* mutant: an unknown name yields a codec as well
createAlgorithm_Always(creators, name) == NewAlgorithm

\* createAlgorithm(name): what the creator registered under name returns,
\* nullptr when there is none
createAlgorithm(creators, name) ==
    IF name \in DOMAIN creators THEN Construct(creators[name]) ELSE NullAlgorithm

\* registerAlgorithms() of main.cpp, run once at startup
registerAlgorithms(creators) ==
    registerAlgorithm(creators, "Downsample", "DownsampleAlgorithm").creators

-----------------------------------------------------------------------------
(* FileReader (frame source): utils/file_reader.cpp *)

DEFAULT_FPS == 300000     \* 30.0 fps

Mat(cols, rows, data) == [cols |-> cols, rows |-> rows, data |-> data]

NewFileReader ==
    [m_isOpen |-> FALSE, m_width |-> 0, m_height |-> 0, m_fps |-> 0, m_frameCount |-> 0,
     next |-> 0]

\* close(): releases the capture and zeroes the cached properties, only when open
FileReader_close(r) == IF r.m_isOpen THEN NewFileReader ELSE r

\* openFile(filename): openOk is the answer of cv::VideoCapture::open; a frame
\* rate <= 0 is replaced by 30
FileReader_openFile(r, v, openOk) ==
    LET r0 == FileReader_close(r) IN
    IF openOk
    THEN [m_isOpen |-> TRUE, m_width |-> v.width, m_height |-> v.height,
          m_fps |-> IF v.fps <= 0 THEN DEFAULT_FPS ELSE v.fps,
          m_frameCount |-> IF Len(v.frames) <= 0 THEN 0 ELSE Len(v.frames),
          next |-> 0]
    ELSE r0

\* readNextFrame(cv::Mat&): readOk is the answer of cv::VideoCapture::read when a
\* frame is left; false at the end of the video, on a read error and when closed
FileReader_readNextFrame(r, v, readOk) ==
    IF r.m_isOpen /\ readOk /\ r.next < Len(v.frames)
    THEN [ret |-> TRUE, fr |-> [r EXCEPT !.next = r.next + 1],
          frame |-> Mat(v.width, v.height, v.frames[r.next + 1])]
    ELSE [ret |-> FALSE, fr |-> r, frame |-> Mat(0, 0, <<>>)]

-----------------------------------------------------------------------------
(* FileWriter (frame sink): src/utils/file_writer.cpp *)

DEFAULT_QUALITY == 75

NewFileWriter ==
    [m_isOpen |-> FALSE, m_width |-> 0, m_height |-> 0, m_fps |-> 0,
     m_quality |-> DEFAULT_QUALITY]

\* close(): releases the writer and zeroes the configured dimensions, only when open
FileWriter_close(w) ==
    IF w.m_isOpen THEN [w EXCEPT !.m_isOpen = FALSE, !.m_width = 0, !.m_height = 0, !.m_fps = 0]
                  ELSE w

\* openFile(filename, width, height, fps, fourcc, quality = 75): openOk is the
\* answer of cv::VideoWriter::open
FileWriter_openFile(w, width, height, fps, openOk) ==
    [FileWriter_close(w) EXCEPT !.m_width = width, !.m_height = height, !.m_fps = fps,
                                !.m_quality = Max(0, Min(100, DEFAULT_QUALITY)),
                                !.m_isOpen = openOk]

\* writeFrame(const cv::Mat&): refuses when closed and when the frame's
\* dimensions differ from the configured ones
FileWriter_writeFrame(w, frame) ==
    IF ~w.m_isOpen THEN FALSE
    ELSE IF frame.cols # w.m_width \/ frame.rows # w.m_height THEN FALSE
    ELSE TRUE

-----------------------------------------------------------------------------
(* VideoEncoder and VideoDecoder: src/core/encoder.cpp *)

ALGORITHM_ID == 1         \* uint16_t algorithmId = 1 in VideoEncoder::processVideo

DefaultEncoderConfig ==
    [algorithmName |-> "", quality |-> 75, bitrate |-> 0, keyFrameInterval |-> 30,
     keepAudio |-> TRUE]

DefaultDecoderConfig ==
    [algorithmName |-> "", quality |-> 75, keepAudio |-> TRUE, keepTempFiles |-> FALSE]

\* CompressionConfig(q, bitrate, kfi)
CompressionConfig(q, bitrate, kfi) ==
    [quality |-> q, target_bitrate |-> bitrate, key_frame_interval |-> kfi]

\* CompressionConfig()
DefaultCompressionConfig == CompressionConfig(75, 0, 30)

\* algoConfig of VideoEncoder::createAlgorithm
EncoderAlgoConfig(config) ==
    CompressionConfig(config.quality, config.bitrate, config.keyFrameInterval)

\* algoConfig of VideoDecoder::createAlgorithm: only the quality is copied
DecoderAlgoConfig(config) == [DefaultCompressionConfig EXCEPT !.quality = config.quality]

\* VideoEncoder::configure(config) after m_config = config: createAlgorithm()
\* resolves the name and initializes the codec (initialize always returns true)
VideoEncoder_createAlgorithm(creators, config) ==
    LET created == createAlgorithm(creators, config.algorithmName) IN
    IF created = NullAlgorithm
    THEN [ret |-> FALSE, algorithm |-> NullAlgorithm]
    ELSE [ret |-> TRUE, algorithm |-> initialize(created, EncoderAlgoConfig(config).quality)]

\* VideoDecoder::configure(config) after m_config = config: createAlgorithm()
VideoDecoder_createAlgorithm(creators, config) ==
    LET created == createAlgorithm(creators, config.algorithmName) IN
    IF created = NullAlgorithm
    THEN [ret |-> FALSE, algorithm |-> NullAlgorithm]
    ELSE [ret |-> TRUE, algorithm |-> initialize(created, DecoderAlgoConfig(config).quality)]

\* pc: "idle" before encode() is called, "extracted" between the audio
\* extraction and processVideo, "running" inside the frame loop, "returned"
\* after encode() returned (value in returned), "crashed" when the process was
\* aborted; configured: what the last configure() returned; audio: what
\* extractAudioFromVideo returned in this run
NewVideoEncoder ==
    [config |-> DefaultEncoderConfig, configured |-> "none", pc |-> "idle", returned |-> "none",
     audio |-> "none",
     frameCount |-> 0, framesProcessed |-> 0, totalInputSize |-> 0, totalOutputSize |-> 0,
     compressionRatio |-> Ratio(0, 1)]

\* what decode() returns once processVideo() has returned true; muxOk is the
\* answer of combineVideoWithAudio
decodeResult(keepAudio, muxOk) == ~keepAudio \/ muxOk

\* mutant: encode() goes to processVideo without extracting the audio
encodeEntry_NoAudio(keepAudio) == "processVideo"

\* the first call encode() makes
encodeEntry(keepAudio) == IF keepAudio THEN "extractAudioFromVideo" ELSE "processVideo"

\* the files left by decode() after processVideo() returned true: the video is
\* muxed or renamed into the output, the temporary files are removed
FilesAfterDecode(files, config, done) ==
    LET tidy == done /\ ~config.keepTempFiles IN
    [compressed |-> files.compressed /\ ~tidy,
     tempAudio  |-> files.tempAudio /\ ~(tidy /\ config.keepAudio),
     tempVideo  |-> files.tempVideo /\ ~done,
     output     |-> files.output \/ done]

\* endLeft: bytes that were left in the container when readFrame ended the
\* loop; pc is "processed" between processVideo and the muxing; muxed: what
\* combineVideoWithAudio returned in this run
NewVideoDecoder ==
    [config |-> DefaultDecoderConfig, configured |-> "none", pc |-> "idle", returned |-> "none",
     muxed |-> "none",
     framesProcessed |-> 0, totalInputSize |-> 0, totalOutputSize |-> 0, endLeft |-> -1]

\* mutant: only the first frame is a key frame
IsKeyFrameAt_OnlyFirst(frameCount, keyFrameInterval) == frameCount = 0

\* isKeyFrame = (frameCount % m_config.keyFrameInterval == 0), for an interval # 0;
\* the remainder of C++ has the sign of the dividend, so only |interval| matters
IsKeyFrameAt(frameCount, keyFrameInterval) ==
    frameCount % (IF keyFrameInterval < 0 THEN -keyFrameInterval ELSE keyFrameInterval) = 0

\* the Frame built from the cv::Mat read from the source
InputFrame(mat, frameCount, isKey) ==
    Frame(mat.cols, mat.rows, mat.data, frameCount, IF isKey THEN KEY_FRAME ELSE DELTA_FRAME)

BoolName(b) == IF b THEN "true" ELSE "false"

-----------------------------------------------------------------------------
(* Inputs of the container runs *)

\* one payload of every length 0..MaxPayload: <<>>, <<255>>, <<255, 84>>, ...
Payloads == {[i \in 1..n |-> (85 * i + 170) % 256] : n \in 0..MaxPayload}

\* where a failing write of len bytes stops: inside the record header, or one
\* byte short of the end
WriteCuts(len) == {2, len - 1}

\* (width, height, fps in 1/10000, algorithm id)
HeaderInputs ==
    { <<640, 480, 300000, 1>>,       \* 30 fps
      <<64, 48, 299997, 1>>,         \* 29.9997 fps: fps*1000 = 29999.7
      <<-1, 65537, 15, 65535>> }     \* 0.0015 fps

\* the callers of the container runs write records only into files created with
\* this header (writeFrame itself never looks at the header fields)
RecordHeader == <<64, 48, 299997, 1>>

UninitInts == {0, -1}

NoRead == [left |-> -1, need |-> 0]

\* bytes a complete record starting at offset pos of file d occupies, by the file
\* layout: 5 header bytes plus the payload size the header declares
RecordNeed(d, pos) ==
    IF Len(d) - pos < HEADER_SIZE THEN HEADER_SIZE
    ELSE HEADER_SIZE + BytesToUInt32(SubSeq(d, pos + 2, pos + 5))

-----------------------------------------------------------------------------
(* Inputs of the codec runs *)

Qualities == {1, 49, 50, 75, 99, 100}

\* sample c of pixel (x, y) of picture number i; kind "flat" is one uniform colour
Sample(kind, i, x, y, c) ==
    IF kind = "flat" THEN 200 - 60 * c ELSE (17 * i + 40 * x + 70 * y + 90 * c) % 256

\* a w x h picture of 3 interleaved channels, row by row
Picture(kind, i, w, h) ==
    [j \in 1..(w * h * 3) |->
        Sample(kind, i, ((j - 1) % (w * 3)) \div 3, (j - 1) \div (w * 3), (j - 1) % 3)]

\* frame sizes up to MaxDim: the squares and the oblongs w x (MaxDim - w)
CodecDims == {<<w, h>> \in (0..MaxDim) \X (0..MaxDim) : h = w \/ h = MaxDim - w}

\* key frames of every size, and one delta frame with a later sequence number
CodecFrames ==
    {Frame(d[1], d[2], Picture(kind, 0, d[1], d[2]), 0, KEY_FRAME) :
        d \in CodecDims, kind \in {"flat", "ramp"}}
    \cup {Frame(4, 4, Picture("ramp", 0, 4, 4), 3, DELTA_FRAME)}

NoFrame == Frame(0, 0, <<>>, -1, KEY_FRAME)

\* frames handed to the GPU codec: a square, an oblong with an odd side, a
\* frame smaller than every factor and a frame wider than two blocks
GpuDims == {<<4, 4>>, <<MaxDim, 2>>, <<1, 1>>, <<2 * BLOCK_SIZE + 2, 2>>}

GpuFrames == {Frame(d[1], d[2], Picture("ramp", 0, d[1], d[2]), 0, KEY_FRAME) : d \in GpuDims}

\* what the device does during one call: every call succeeds, or one of them fails
DeviceFailures == {"ok"} \cup DeviceSteps

NoOutcome == [status |-> "none", frame |-> NoFrame, factor |-> 0]

\* no compressFrame call yet
NoInput ==
    [frame |-> NoFrame, factor |-> 0, compressed |-> 0, decompressed |-> 0,
     ratioSum |-> Ratio(0, 1)]

\* a + b on doubles
RatioAdd(a, b) ==
    IF (a.den = 0 /\ a.num = 0) \/ (b.den = 0 /\ b.num = 0) THEN Ratio(0, 0)
    ELSE IF a.den = 0 \/ b.den = 0 THEN Ratio(1, 0)
    ELSE Ratio(a.num * b.den + b.num * a.den, a.den * b.den)

\* the history after a compressFrame call that took frame and returned payload:
\* the ratio of the call is the bytes of the picture over the bytes of the
\* downsampled picture
Compressed(log, frame, factor, payload) ==
    [log EXCEPT !.frame = frame, !.factor = factor, !.compressed = @ + 1,
                !.ratioSum = RatioAdd(@, Ratio(Len(frame.data), Len(payload) - METADATA_BYTES))]

\* the history after reset()
Cleared(log) == [log EXCEPT !.compressed = 0, !.decompressed = 0, !.ratioSum = Ratio(0, 1)]

-----------------------------------------------------------------------------
(* Inputs of the pipeline runs *)

\* names the pipelines are configured with, and the names registered at startup
AlgorithmNames == {"Downsample", "Unknown"}

\* names an AlgorithmFactory call is made with, and the creators registered
RegistryNames == AlgorithmNames \cup {"CudaBilinearDownsample"}

Creators == {"DownsampleAlgorithm", "CudaBilinearDownsampleAlgorithm"}

\* the registry once main() has run registerAlgorithms()
StartupRegistry == registerAlgorithms(EmptyRegistry)

NoCall ==
    [op |-> "none", name |-> "", creator |-> "none", ok |-> FALSE, list |-> <<>>,
     created |-> NullAlgorithm]

NoBinding == [n \in RegistryNames |-> "none"]

\* quality 30 gives factor 4, quality 100 gives factor 2
PipelineQualities == {30, 100}

\* values a caller may put into EncoderConfig::quality and DecoderConfig::quality
ConfigQualities == PipelineQualities \cup {-1, 0, 1, 49, 50, 99, 101, 250}

KeyFrameIntervals == {0, 1, 2, 5}

VIDEO_FPS == 299700       \* 29.97 fps

ExampleFrames == 10       \* the 10-frame example of the key-frame schedule

VideoDims == {<<4, 4>>, <<1, 1>>}

\* a video of n frames w x h whose pictures all differ
Video(w, h, n) ==
    [width |-> w, height |-> h, fps |-> VIDEO_FPS,
     frames |-> [i \in 1..n |-> Picture("ramp", i, w, h)]]

Videos ==
    {Video(d[1], d[2], n) : d \in VideoDims, n \in 0..MaxFrames}
    \cup {Video(4, 4, ExampleFrames)}

\* where a failing write of a record of len bytes stops in the pipeline runs
PipelineCuts(len) == {len - 1}

NoVideo == Video(0, 0, 0)

\* the payload an encode run at this quality stores for frame number i (from 0)
PayloadOf(v, quality, i) ==
    compressFrame(initialize(NewAlgorithm, quality),
                  InputFrame(Mat(v.width, v.height, v.frames[i + 1]), i, TRUE)).payload

RECURSIVE RecordsOf(_, _, _, _)
\* the record area a failure-free encode run writes for the first n frames of v
RecordsOf(v, quality, k, n) ==
    IF n = 0 THEN <<>>
    ELSE RecordsOf(v, quality, k, n - 1)
         \o RecordBytes(PayloadOf(v, quality, n - 1), IsKeyFrameAt(n - 1, k))

\* the container file a failure-free encode run leaves for video v
ContainerOf(v, quality, k) ==
    HeaderBytes(v.width, v.height, v.fps, ALGORITHM_ID)
    \o RecordsOf(v, quality, k, Len(v.frames))

\* a file d whose last len bytes (one record) are cut down to keep bytes
CutLast(d, len, keep) == SubSeq(d, 1, Len(d) - len + keep)

Source(kind, v, quality, n, bytes) ==
    [kind |-> kind, width |-> v.width, height |-> v.height, quality |-> quality,
     payloads |-> [i \in 1..n |-> PayloadOf(v, quality, i - 1)], bytes |-> bytes]

\* containers written by a failure-free encode run
WellFormedSources ==
    {Source("wellformed", Video(d[1], d[2], n), q, n, ContainerOf(Video(d[1], d[2], n), q, 2)) :
        d \in VideoDims, n \in 0..MaxFrames, q \in PipelineQualities}

\* such containers whose last record lost its tail: 2 of its 5 header bytes are
\* left, or all of it but the last payload byte
TruncatedSources ==
    UNION {
      LET v   == Video(4, 4, n)
          len == HEADER_SIZE + Len(PayloadOf(v, q, n - 1))
      IN {Source("truncated", v, q, n - 1, CutLast(ContainerOf(v, q, 2), len, keep)) :
             keep \in {2, len - 1}}
      : n \in 1..MaxFrames, q \in PipelineQualities}

\* containers whose header announces 4 x 4 while the records hold 2 x 2 frames
MismatchSources ==
    {Source("mismatch", Video(2, 2, n), q, n,
            HeaderBytes(4, 4, VIDEO_FPS, ALGORITHM_ID)
            \o RecordsOf(Video(2, 2, n), q, 2, n)) :
        n \in 1..MaxFrames, q \in {100}}

DecodeSources == WellFormedSources \cup TruncatedSources \cup MismatchSources

NoSource == Source("none", NoVideo, 0, 0, <<>>)

\* the files named by the configuration: compressedDataPath, tempAudioPath,
\* tempVideoPath, outputPath
NoDevice == [compress |-> "none", decompress |-> "none"]

NoFiles == [compressed |-> FALSE, tempAudio |-> FALSE, tempVideo |-> FALSE, output |-> FALSE]

-----------------------------------------------------------------------------
(* Components at rest: every specification starts the components it does not *)
(* exercise in these states and leaves them there                             *)

NoContainerCalls ==
    /\ frameData = <<>>
    /\ isKeyFrame = FALSE
    /\ ret = [op |-> "new", val |-> TRUE]
    /\ written = <<>>
    /\ sessionOk = FALSE
    /\ hdrIn = [w |-> 0, h |-> 0, fps |-> 0, alg |-> 0, ok |-> FALSE]
    /\ readBack = <<>>
    /\ readEnded = FALSE
    /\ readLog = NoRead
    /\ mode = "none"

IdleContainer ==
    /\ disk = <<>>
    /\ NoContainerCalls

NoCodecCalls ==
    /\ cIn = NoInput
    /\ cPayload = <<>>
    /\ cOut = NoOutcome

IdleCodec ==
    /\ m_algorithm = NewAlgorithm
    /\ NoCodecCalls

IdleEncoder ==
    /\ enc = NewVideoEncoder
    /\ fr = NewFileReader
    /\ video = NoVideo

IdleDecoder ==
    /\ dec = NewVideoDecoder
    /\ fw = NewFileWriter
    /\ decLog = <<>>
    /\ sinkLog = <<>>
    /\ source = NoSource

IdlePipelines ==
    /\ IdleEncoder
    /\ IdleDecoder
    /\ ioFailed = FALSE
    /\ fsys = NoFiles

\* the registry as main() leaves it at startup, and no call made since
IdleRegistry ==
    /\ m_algorithm_creators = StartupRegistry
    /\ call = NoCall
    /\ bound = [n \in RegistryNames |->
                   IF n \in DOMAIN StartupRegistry THEN StartupRegistry[n] ELSE "none"]

\* no GPU codec has been constructed
IdleGpu ==
    /\ m_cuda_available = FALSE
    /\ gpuLog = NoDevice

-----------------------------------------------------------------------------
(* The container on its own: any sequence of calls on one CompressedFormat *)

InitContainer ==
    /\ IdleContainer
    /\ cf \in {NewCompressedFormat(m, a) : m \in BOOLEAN, a \in {0, 65535}}
    /\ IdleCodec
    /\ IdlePipelines
    /\ IdleRegistry
    /\ IdleGpu

OpenForWriting ==
    \E hi \in HeaderInputs, openOk \in BOOLEAN, failAt \in 0..4 :
        LET r == openForWriting(cf, disk, hi[1], hi[2], hi[3], hi[4], openOk, failAt) IN
        /\ (~openOk => failAt = 0)
        /\ cf' = r.cf
        /\ disk' = r.disk
        /\ ret' = [op |-> "openForWriting", val |-> r.ret]
        /\ IF openOk
           THEN /\ written' = <<>>
                /\ sessionOk' = r.ret
                /\ hdrIn' = [w |-> hi[1], h |-> hi[2], fps |-> hi[3], alg |-> hi[4], ok |-> r.ret]
           ELSE UNCHANGED <<written, sessionOk, hdrIn>>
        /\ frameData' = <<>>
        /\ readBack' = <<>>
        /\ readEnded' = FALSE
        /\ readLog' = NoRead
        /\ mode' = IF openOk THEN "write" ELSE "none"
        /\ UNCHANGED <<isKeyFrame, codecVars, pipelineVars,
                       registryVars, gpuVars>>

OpenForReading ==
    \E openOk \in BOOLEAN, uninit \in UninitInts :
        LET r == openForReading(cf, disk, openOk, uninit) IN
        /\ cf' = r.cf
        /\ ret' = [op |-> "openForReading", val |-> r.ret]
        /\ readBack' = <<>>
        /\ readEnded' = FALSE
        /\ readLog' = NoRead
        /\ mode' = IF r.ret THEN "read" ELSE "none"
        /\ frameData' = <<>>
        /\ UNCHANGED <<disk, isKeyFrame, written, sessionOk, hdrIn, codecVars, pipelineVars,
                       registryVars, gpuVars>>

WriteFrame ==
    \E data \in Payloads, key \in BOOLEAN :
      \E cut \in {-1} \cup WriteCuts(HEADER_SIZE + Len(data)) :
        LET r == writeFrame(cf, disk, data, key, cut) IN
        /\ Len(written) < MaxRecords
        /\ (writeFrameAllowed(cf) => <<hdrIn.w, hdrIn.h, hdrIn.fps, hdrIn.alg>> = RecordHeader)
        /\ cf' = r.cf
        /\ disk' = r.disk
        /\ ret' = [op |-> "writeFrame", val |-> r.ret]
        /\ written' = IF r.ret THEN Append(written, [key |-> key, data |-> data]) ELSE written
        /\ sessionOk' = (sessionOk /\ (r.ret \/ r.disk = disk))
        /\ UNCHANGED <<frameData, isKeyFrame, hdrIn, readBack, readEnded, readLog, mode,
                       codecVars, pipelineVars,
                       registryVars, gpuVars>>

ReadFrame ==
    LET r == readFrame(cf, disk, frameData, isKeyFrame) IN
    /\ cf' = r.cf
    /\ frameData' = r.frameData
    /\ isKeyFrame' = r.isKeyFrame
    /\ ret' = [op |-> "readFrame", val |-> r.ret]
    /\ readBack' = IF r.ret THEN Append(readBack, [key |-> r.isKeyFrame, data |-> r.frameData])
                            ELSE readBack
    /\ readEnded' = (readEnded \/ (mode = "read" /\ ~r.ret))
    /\ readLog' = IF mode = "read" THEN [left |-> Len(disk) - cf.pos, need |-> RecordNeed(disk, cf.pos)]
                                   ELSE NoRead
    /\ UNCHANGED <<disk, written, sessionOk, hdrIn, mode, codecVars, pipelineVars,
                   registryVars, gpuVars>>

Close ==
    /\ cf' = close(cf)
    /\ ret' = [op |-> "close", val |-> TRUE]
    /\ mode' = "none"
    /\ frameData' = <<>>
    /\ readBack' = <<>>
    /\ readEnded' = FALSE
    /\ readLog' = NoRead
    /\ UNCHANGED <<disk, isKeyFrame, written, sessionOk, hdrIn, codecVars, pipelineVars,
                   registryVars, gpuVars>>

NextContainer == OpenForWriting \/ OpenForReading \/ WriteFrame \/ ReadFrame \/ Close

SpecContainer == InitContainer /\ [][NextContainer]_vars

-----------------------------------------------------------------------------
(* The codec on its own: any sequence of calls on one BilinearDownsampleAlgorithm *)

InitCodec ==
    /\ IdleContainer
    /\ cf = NewCompressedFormat(FALSE, 0)
    /\ IdleCodec
    /\ IdlePipelines
    /\ IdleRegistry
    /\ IdleGpu

\* the process is alive: no call has aborted it
Alive == cOut.status # "crash"

\* initialize is called once, on the object createAlgorithm has just made
Initialize ==
    \E q \in Qualities :
        /\ Alive
        /\ m_algorithm = NewAlgorithm
        /\ cIn.factor = 0
        /\ m_algorithm' = initialize(m_algorithm, q)
        /\ UNCHANGED <<cIn, cPayload, cOut, containerVars, pipelineVars,
                       registryVars, gpuVars>>

CompressFrame ==
    \E frame \in CodecFrames :
        LET r == compressFrame(m_algorithm, frame) IN
        /\ Alive
        /\ m_algorithm.frames_compressed < MaxCalls
        /\ m_algorithm' = r.algorithm
        /\ cIn' = Compressed(cIn, frame, m_algorithm.factor, r.payload)
        /\ cPayload' = r.payload
        /\ cOut' = IF r.ub THEN [NoOutcome EXCEPT !.status = "crash"] ELSE NoOutcome
        /\ UNCHANGED <<containerVars, pipelineVars,
                       registryVars, gpuVars>>

DecompressFrame ==
    /\ Alive
    /\ cIn.factor # 0
    /\ m_algorithm.frames_decompressed < MaxCalls
    /\ \E o \in decompressFrame(m_algorithm, cPayload) :
          /\ cOut' = [status |-> o.status, frame |-> o.frame, factor |-> m_algorithm.factor]
          /\ m_algorithm' = o.algorithm
          /\ cIn' = IF o.status = "ok" THEN [cIn EXCEPT !.decompressed = @ + 1] ELSE cIn
    /\ UNCHANGED <<cPayload, containerVars, pipelineVars,
                   registryVars, gpuVars>>

Reset ==
    /\ Alive
    /\ m_algorithm.frames_compressed + m_algorithm.frames_decompressed > 0
    /\ m_algorithm' = reset(m_algorithm)
    /\ cIn' = Cleared(cIn)
    /\ UNCHANGED <<cPayload, cOut, containerVars, pipelineVars,
                   registryVars, gpuVars>>

NextCodec == Initialize \/ CompressFrame \/ DecompressFrame \/ Reset

SpecCodec == InitCodec /\ [][NextCodec]_vars

-----------------------------------------------------------------------------
(* The encode pipeline: configure, then one encode() call on a VideoEncoder *)

InitEncode ==
    /\ IdleContainer
    /\ cf \in {NewCompressedFormat(m, 0) : m \in BOOLEAN}
    /\ NoCodecCalls
    /\ m_algorithm = NullAlgorithm
    /\ enc = NewVideoEncoder
    /\ fr = NewFileReader
    /\ video \in Videos
    /\ IdleDecoder
    /\ ioFailed = FALSE
    /\ fsys = NoFiles
    /\ IdleRegistry
    /\ IdleGpu

\* VideoEncoder::configure(config) with createAlgorithm()
EncoderConfigure ==
    \E name \in AlgorithmNames, q \in ConfigQualities, k \in KeyFrameIntervals,
       audio \in BOOLEAN :
        LET config == [algorithmName |-> name, quality |-> q, bitrate |-> 0,
                       keyFrameInterval |-> k, keepAudio |-> audio]
            r      == VideoEncoder_createAlgorithm(m_algorithm_creators, config)
        IN
        /\ enc.pc = "idle"
        /\ enc' = [enc EXCEPT !.config = config, !.configured = BoolName(r.ret)]
        /\ m_algorithm' = r.algorithm
        /\ UNCHANGED <<containerVars, cIn, cPayload, cOut, fr, video, decoderVars,
                       ioFailed, fsys,
                       registryVars, gpuVars>>

\* encode() with keepAudio: the audio is extracted first; audioOk is the answer
\* of extractAudio
EncodeExtractAudio ==
    \E audioOk \in BOOLEAN :
        /\ enc.pc = "idle"
        /\ encodeEntry(enc.config.keepAudio) = "extractAudioFromVideo"
        /\ enc' = IF audioOk
                  THEN [enc EXCEPT !.pc = "extracted", !.audio = "true"]
                  ELSE [enc EXCEPT !.pc = "returned", !.returned = "false", !.audio = "false"]
        /\ fsys' = [fsys EXCEPT !.tempAudio = audioOk]
        /\ ioFailed' = ~audioOk
        /\ UNCHANGED <<containerVars, codecVars, fr, video, decoderVars, registryVars, gpuVars>>

\* processVideo up to its frame loop: opening the source, opening the
\* container.  openOk, cfOk and failAt are the answers of the environment.
EncodeBegin ==
    \E openOk \in BOOLEAN, cfOk \in BOOLEAN, failAt \in 0..4 :
        LET opened == FileReader_openFile(fr, video, openOk)
            w      == openForWriting(cf, disk, opened.m_width, opened.m_height, opened.m_fps,
                                     ALGORITHM_ID, cfOk, failAt)
        IN
        /\ \/ enc.pc = "idle" /\ encodeEntry(enc.config.keepAudio) = "processVideo"
           \/ enc.pc = "extracted"
        /\ (~cfOk => failAt = 0)
        /\ fr' = opened
        /\ IF ~openOk
           THEN /\ enc' = [enc EXCEPT !.pc = "returned", !.returned = "false"]
                /\ ioFailed' = TRUE
                /\ UNCHANGED <<cf, disk, fsys>>
           ELSE /\ cf' = w.cf
                /\ disk' = w.disk
                /\ fsys' = [fsys EXCEPT !.compressed = cfOk]
                /\ ioFailed' = ~w.ret
                /\ enc' = IF w.ret THEN [enc EXCEPT !.pc = "running", !.frameCount = 0]
                                   ELSE [enc EXCEPT !.pc = "returned", !.returned = "false"]
        /\ UNCHANGED <<frameData, isKeyFrame, ret, written, sessionOk, hdrIn, readBack,
                       readEnded, readLog, mode, codecVars, video, decoderVars,
                       registryVars, gpuVars>>

\* one turn of the frame loop of VideoEncoder::processVideo.  cut is where the
\* write of the record stops (-1: it is complete).  With keyFrameInterval = 0 the
\* remainder is undefined: the division traps and the process is aborted, or
\* it yields quotient 0 and the remainder is frameCount itself (kf); calling
\* through a null m_algorithm aborts the process.
EncodeFrame ==
    \E kf \in {"crash", "key", "delta"} :
        LET rd == FileReader_readNextFrame(fr, video, TRUE)
            k  == enc.config.keyFrameInterval
            isKey == (kf = "key")
            inputFrame == InputFrame(rd.frame, enc.frameCount, isKey)
            c  == compressFrame(m_algorithm, inputFrame)
        IN
        /\ enc.pc = "running"
        /\ rd.ret
        /\ (k # 0 => kf = IF IsKeyFrameAt(enc.frameCount, k) THEN "key" ELSE "delta")
        /\ (k = 0 => kf \in {"crash", IF enc.frameCount = 0 THEN "key" ELSE "delta"})
        /\ fr' = rd.fr
        /\ IF kf = "crash" \/ m_algorithm = NullAlgorithm
           THEN /\ enc' = [enc EXCEPT !.pc = "crashed"]
                /\ UNCHANGED <<m_algorithm, cf, disk, ioFailed>>
           ELSE \E cut \in {-1} \cup PipelineCuts(HEADER_SIZE + Len(c.payload)) :
                  LET w == writeFrame(cf, disk, c.payload, isKey, cut) IN
                  /\ m_algorithm' = c.algorithm
                  /\ cf' = w.cf
                  /\ disk' = w.disk
                  /\ ioFailed' = (ioFailed \/ ~w.ret)
                  /\ enc' = [enc EXCEPT
                               !.totalInputSize = enc.totalInputSize + Len(inputFrame.data),
                               !.totalOutputSize = enc.totalOutputSize + Len(c.payload),
                               !.framesProcessed = enc.framesProcessed + 1,
                               !.frameCount = enc.frameCount + 1]
        /\ UNCHANGED <<frameData, isKeyFrame, ret, written, sessionOk, hdrIn, readBack,
                       readEnded, readLog, mode, cIn, cPayload, cOut, video, decoderVars,
                       fsys,
                       registryVars, gpuVars>>

\* the loop of processVideo ends (readNextFrame returned false: no frame is left,
\* or the read failed), processVideo closes both files and returns true, and
\* encode() returns true
EncodeEnd ==
    \E readOk \in BOOLEAN :
        LET rd == FileReader_readNextFrame(fr, video, readOk) IN
        /\ enc.pc = "running"
        /\ ~rd.ret
        /\ ioFailed' = (ioFailed \/ fr.next < Len(video.frames))
        /\ fr' = FileReader_close(rd.fr)
        /\ cf' = close(cf)
        /\ enc' = [enc EXCEPT !.pc = "returned", !.returned = "true",
                              !.compressionRatio =
                                  IF enc.totalInputSize > 0
                                  THEN Ratio(enc.totalInputSize, enc.totalOutputSize)
                                  ELSE enc.compressionRatio]
        /\ UNCHANGED <<disk, frameData, isKeyFrame, ret, written, sessionOk, hdrIn, readBack,
                       readEnded, readLog, mode, codecVars, video, decoderVars, fsys,
                       registryVars, gpuVars>>

NextEncode ==
    EncoderConfigure \/ EncodeExtractAudio \/ EncodeBegin \/ EncodeFrame \/ EncodeEnd

SpecEncode == InitEncode /\ [][NextEncode]_vars

-----------------------------------------------------------------------------
(* The decode pipeline: configure, then one decode() call on a VideoDecoder *)

InitDecode ==
    /\ NoContainerCalls
    /\ NoCodecCalls
    /\ m_algorithm = NullAlgorithm
    /\ IdleEncoder
    /\ dec = NewVideoDecoder
    /\ fw = NewFileWriter
    /\ decLog = <<>>
    /\ sinkLog = <<>>
    /\ source \in DecodeSources
    /\ disk = source.bytes
    /\ cf \in {NewCompressedFormat(m, 0) : m \in BOOLEAN}
    /\ ioFailed = FALSE
    /\ fsys = [NoFiles EXCEPT !.compressed = TRUE, !.tempAudio = TRUE]
    /\ IdleRegistry
    /\ IdleGpu

\* VideoDecoder::configure(config) with createAlgorithm()
DecoderConfigure ==
    \E name \in AlgorithmNames, q \in ConfigQualities, audio \in BOOLEAN,
       keepTemp \in BOOLEAN :
        LET config == [algorithmName |-> name, quality |-> q, keepAudio |-> audio,
                       keepTempFiles |-> keepTemp]
            r      == VideoDecoder_createAlgorithm(m_algorithm_creators, config)
        IN
        /\ dec.pc = "idle"
        /\ dec' = [dec EXCEPT !.config = config, !.configured = BoolName(r.ret)]
        /\ m_algorithm' = r.algorithm
        /\ UNCHANGED <<containerVars, cIn, cPayload, cOut, encoderVars, fw, decLog, sinkLog,
                       source, ioFailed, fsys,
                       registryVars, gpuVars>>

\* decode() up to the record loop of processVideo: opening the container and
\* the sink.  openOk and sinkOk are the answers of the environment; uninit is
\* what the header fields hold when the header cannot be read.
DecodeBegin ==
    \E openOk \in BOOLEAN, sinkOk \in BOOLEAN, uninit \in UninitInts :
        LET o  == openForReading(cf, disk, openOk, uninit)
            w  == FileWriter_openFile(fw, o.cf.width, o.cf.height, o.cf.fps, sinkOk)
        IN
        /\ dec.pc = "idle"
        /\ cf' = o.cf
        /\ IF ~o.ret
           THEN /\ dec' = [dec EXCEPT !.pc = "returned", !.returned = "false"]
                /\ ioFailed' = TRUE
                /\ UNCHANGED <<fw, fsys>>
           ELSE /\ fw' = w
                /\ fsys' = [fsys EXCEPT !.tempVideo = sinkOk]
                /\ ioFailed' = ~sinkOk
                /\ dec' = IF sinkOk THEN [dec EXCEPT !.pc = "running"]
                                    ELSE [dec EXCEPT !.pc = "returned", !.returned = "false"]
        /\ frameData' = <<>>
        /\ UNCHANGED <<disk, isKeyFrame, ret, written, sessionOk, hdrIn, readBack, readEnded,
                       readLog, mode, codecVars, encoderVars, decLog, sinkLog, source,
                       registryVars, gpuVars>>

\* one turn of the record loop of VideoDecoder::processVideo: readFrame returned
\* true, the payload is decompressed and the frame handed to the sink, whose
\* answer is dropped.  Calling through a null m_algorithm aborts the process.
DecodeFrame ==
    LET r == readFrame(cf, disk, frameData, isKeyFrame) IN
    /\ dec.pc = "running"
    /\ r.ret
    /\ cf' = r.cf
    /\ frameData' = r.frameData
    /\ isKeyFrame' = r.isKeyFrame
    /\ IF m_algorithm = NullAlgorithm
       THEN /\ dec' = [dec EXCEPT !.pc = "crashed",
                                  !.totalInputSize = dec.totalInputSize + Len(r.frameData)]
            /\ UNCHANGED <<m_algorithm, decLog, sinkLog>>
       ELSE \E o \in decompressFrame(m_algorithm, r.frameData) :
              LET outputFrame == Mat(o.frame.width, o.frame.height, o.frame.data)
                  aborted     == o.status = "crash" \/ o.frame.width < 0 \/ o.frame.height < 0
              IN
              /\ m_algorithm' = o.algorithm
              /\ decLog' = Append(decLog, r.frameData)
              /\ IF aborted
                 THEN /\ dec' = [dec EXCEPT !.pc = "crashed",
                                   !.totalInputSize = dec.totalInputSize + Len(r.frameData)]
                      /\ UNCHANGED sinkLog
                 ELSE /\ sinkLog' = Append(sinkLog,
                                       [cols |-> outputFrame.cols, rows |-> outputFrame.rows,
                                        accepted |-> FileWriter_writeFrame(fw, outputFrame)])
                      /\ dec' = [dec EXCEPT
                                   !.totalInputSize = dec.totalInputSize + Len(r.frameData),
                                   !.totalOutputSize = dec.totalOutputSize + Len(o.frame.data),
                                   !.framesProcessed = dec.framesProcessed + 1]
    /\ UNCHANGED <<disk, ret, written, sessionOk, hdrIn, readBack, readEnded, readLog, mode,
                   cIn, cPayload, cOut, encoderVars, fw, source, ioFailed, fsys,
                   registryVars, gpuVars>>

\* readFrame returned false: processVideo closes the container and the sink and
\* returns true; without keepAudio decode() renames the video, removes the
\* temporary files and returns true
DecodeEnd ==
    LET r     == readFrame(cf, disk, frameData, isKeyFrame)
        audio == dec.config.keepAudio
        files == FilesAfterDecode(fsys, dec.config, TRUE)
    IN
    /\ dec.pc = "running"
    /\ ~r.ret
    /\ frameData' = r.frameData
    /\ isKeyFrame' = r.isKeyFrame
    /\ cf' = close(r.cf)
    /\ fw' = FileWriter_close(fw)
    /\ IF audio
       THEN /\ dec' = [dec EXCEPT !.pc = "processed", !.endLeft = Len(disk) - cf.pos]
            /\ UNCHANGED <<fsys, disk>>
       ELSE /\ dec' = [dec EXCEPT !.pc = "returned", !.endLeft = Len(disk) - cf.pos,
                                  !.returned = BoolName(decodeResult(audio, TRUE))]
            /\ fsys' = files
            /\ disk' = IF files.compressed THEN disk ELSE <<>>
    /\ UNCHANGED <<ret, written, sessionOk, hdrIn, readBack, readEnded, readLog, mode,
                   codecVars, encoderVars, decLog, sinkLog, source, ioFailed,
                   registryVars, gpuVars>>

\* decode() with keepAudio after processVideo() returned true: the video is
\* muxed with the audio (muxOk is the answer of combineVideoAudio), the
\* temporary files are removed and decode() returns
DecodeCombine ==
    \E muxOk \in BOOLEAN :
        LET done  == decodeResult(dec.config.keepAudio, muxOk)
            files == FilesAfterDecode(fsys, dec.config, done)
        IN
        /\ dec.pc = "processed"
        /\ dec' = [dec EXCEPT !.pc = "returned", !.returned = BoolName(done),
                              !.muxed = BoolName(muxOk)]
        /\ ioFailed' = (ioFailed \/ ~muxOk)
        /\ fsys' = files
        /\ disk' = IF files.compressed THEN disk ELSE <<>>
        /\ UNCHANGED <<cf, frameData, isKeyFrame, ret, written, sessionOk, hdrIn, readBack,
                       readEnded, readLog, mode, codecVars, encoderVars, fw, decLog, sinkLog,
                       source, registryVars, gpuVars>>

NextDecode ==
    DecoderConfigure \/ DecodeBegin \/ DecodeFrame \/ DecodeEnd \/ DecodeCombine

SpecDecode == InitDecode /\ [][NextDecode]_vars

-----------------------------------------------------------------------------
(* Either pipeline: one run of a VideoEncoder on a video, or one run of a     *)
(* VideoDecoder on a container file                                            *)

InitPipelines == InitEncode \/ InitDecode

\* an encode run has no container file given to a decoder
EncodeRun == source = NoSource /\ NextEncode

DecodeRun == source # NoSource /\ NextDecode

NextPipelines == EncodeRun \/ DecodeRun

SpecPipelines == InitPipelines /\ [][NextPipelines]_vars

-----------------------------------------------------------------------------
(* The GPU codec on its own: any sequence of calls on one                     *)
(* CudaBilinearDownsampleAlgorithm, constructed with or without a device      *)

InitGpu ==
    /\ IdleContainer
    /\ cf = NewCompressedFormat(FALSE, 0)
    /\ IdleCodec
    /\ IdlePipelines
    /\ IdleRegistry
    /\ \E error \in {"cudaSuccess", "cudaErrorNoDevice"}, deviceCount \in {0, 1} :
          m_cuda_available = CudaAvailable(error, deviceCount)
    /\ gpuLog = NoDevice

\* CudaBilinearDownsampleAlgorithm::initialize: the base initialize and a message
GpuInitialize == Initialize

GpuCompressFrame ==
    \E frame \in GpuFrames, fail \in DeviceFailures :
      \E o \in CudaCompressFrame(m_algorithm, m_cuda_available, frame, fail) :
        /\ Alive
        /\ m_algorithm.frames_compressed < MaxCalls
        /\ (~m_cuda_available => fail = "ok")
        /\ m_algorithm' = o.algorithm
        /\ cIn' = IF o.status = "ok"
                  THEN Compressed(cIn, frame, m_algorithm.factor, o.payload)
                  ELSE [cIn EXCEPT !.frame = frame, !.factor = m_algorithm.factor]
        /\ cPayload' = o.payload
        /\ cOut' = IF o.status = "crash" THEN [NoOutcome EXCEPT !.status = "crash"] ELSE NoOutcome
        /\ gpuLog' = [compress |-> fail, decompress |-> "none"]
        /\ UNCHANGED <<m_cuda_available, containerVars, pipelineVars, registryVars>>

GpuDecompressFrame ==
    \E fail \in DeviceFailures :
      \E o \in CudaDecompressFrame(m_algorithm, m_cuda_available, cPayload, fail) :
        /\ Alive
        /\ cIn.factor # 0
        /\ m_algorithm.frames_decompressed < MaxCalls
        /\ (~m_cuda_available => fail = "ok")
        /\ cOut' = [status |-> o.status, frame |-> o.frame, factor |-> m_algorithm.factor]
        /\ m_algorithm' = o.algorithm
        /\ cIn' = IF o.status = "ok" THEN [cIn EXCEPT !.decompressed = @ + 1] ELSE cIn
        /\ gpuLog' = [gpuLog EXCEPT !.decompress = fail]
        /\ UNCHANGED <<cPayload, m_cuda_available, containerVars, pipelineVars,
                       registryVars>>

\* reset() is inherited from the base class
GpuReset == Reset

NextGpu == GpuInitialize \/ GpuCompressFrame \/ GpuDecompressFrame \/ GpuReset

SpecGpu == InitGpu /\ [][NextGpu]_vars

-----------------------------------------------------------------------------
(* The registry on its own: any sequence of AlgorithmFactory calls, from the *)
(* empty map the process starts with                                          *)

InitRegistry ==
    /\ IdleContainer
    /\ cf = NewCompressedFormat(FALSE, 0)
    /\ IdleCodec
    /\ IdlePipelines
    /\ IdleGpu
    /\ m_algorithm_creators = EmptyRegistry
    /\ call = NoCall
    /\ bound = NoBinding

RegisterAlgorithm ==
    \E name \in RegistryNames, creator \in Creators :
        LET r == registerAlgorithm(m_algorithm_creators, name, creator) IN
        /\ m_algorithm_creators' = r.creators
        /\ call' = [NoCall EXCEPT !.op = "registerAlgorithm", !.name = name,
                                  !.creator = creator, !.ok = r.ret]
        /\ bound' = IF r.ret THEN [bound EXCEPT ![name] = creator] ELSE bound
        /\ UNCHANGED <<containerVars, codecVars, pipelineVars, gpuVars>>

UnregisterAlgorithm ==
    \E name \in RegistryNames :
        LET r == unregisterAlgorithm(m_algorithm_creators, name) IN
        /\ m_algorithm_creators' = r.creators
        /\ call' = [NoCall EXCEPT !.op = "unregisterAlgorithm", !.name = name, !.ok = r.ret]
        /\ bound' = [bound EXCEPT ![name] = "none"]
        /\ UNCHANGED <<containerVars, codecVars, pipelineVars, gpuVars>>

GetAvailableAlgorithms ==
    \E algorithms \in getAvailableAlgorithms(m_algorithm_creators) :
        /\ call' = [NoCall EXCEPT !.op = "getAvailableAlgorithms", !.list = algorithms]
        /\ UNCHANGED <<m_algorithm_creators, bound, containerVars, codecVars, pipelineVars,
                       gpuVars>>

IsAlgorithmAvailable ==
    \E name \in RegistryNames :
        /\ call' = [NoCall EXCEPT !.op = "isAlgorithmAvailable", !.name = name,
                                  !.ok = isAlgorithmAvailable(m_algorithm_creators, name)]
        /\ UNCHANGED <<m_algorithm_creators, bound, containerVars, codecVars, pipelineVars,
                       gpuVars>>

CreateAlgorithm ==
    \E name \in RegistryNames :
        /\ call' = [NoCall EXCEPT !.op = "createAlgorithm", !.name = name,
                                  !.created = createAlgorithm(m_algorithm_creators, name)]
        /\ UNCHANGED <<m_algorithm_creators, bound, containerVars, codecVars, pipelineVars,
                       gpuVars>>

NextRegistry ==
    \/ RegisterAlgorithm
    \/ UnregisterAlgorithm
    \/ GetAvailableAlgorithms
    \/ IsAlgorithmAvailable
    \/ CreateAlgorithm

SpecRegistry == InitRegistry /\ [][NextRegistry]_vars

-----------------------------------------------------------------------------
(* Properties of the container *)

\* what a caller of readFrame can observe through the public interface: the value
\* returned, its two out-parameters and isOpen()
ReadObservation(c, d, fd, key) ==
    LET r == readFrame(c, d, fd, key) IN <<r.ret, r.frameData, r.isKeyFrame, isOpen(r.cf)>>

\* C1: records written by a failure-free write session are read back with the same
\* kinds and byte-identical payloads, in the same order, and readFrame reports the
\* end of the stream only after the last of them.
C1_RecordRoundTrip ==
    (mode = "read" /\ sessionOk) =>
        /\ IsPrefix(readBack, written)
        /\ (readEnded => readBack = written)

C1_Witness ==
    /\ mode = "read" /\ sessionOk /\ readEnded
    /\ Len(written) = 2 /\ readBack = written
    /\ written[1].key /\ ~written[2].key
    /\ written[1].data = <<>> /\ written[2].data # <<>>

\* C2 (as claimed): the header read back holds w, h and algId exactly and the fps
\* rounded to the nearest 1/1000.
C2_HeaderRoundTripRounded ==
    (mode = "read" /\ hdrIn.ok) =>
        /\ cf.width = hdrIn.w /\ cf.height = hdrIn.h /\ cf.algId = hdrIn.alg
        /\ cf.fps = ((hdrIn.fps + 5) \div 10) * 10

\* C2 (amended): the header read back holds w, h and algId exactly and, for a
\* non-negative fps, the largest multiple of 1/1000 that does not exceed fps
\* (fps * 1000 is truncated, not rounded).
C2_HeaderRoundTripTruncated ==
    (mode = "read" /\ hdrIn.ok /\ hdrIn.fps >= 0) =>
        /\ cf.width = hdrIn.w /\ cf.height = hdrIn.h /\ cf.algId = hdrIn.alg
        /\ cf.fps % 10 = 0 /\ cf.fps <= hdrIn.fps /\ hdrIn.fps < cf.fps + 10

C2_Witness ==
    /\ mode = "read" /\ hdrIn.ok /\ ret.op = "openForReading"
    /\ hdrIn.fps = 299997 /\ cf.fps = 299990 /\ cf.width = 64 /\ cf.algId = 1

\* C8: with 1 to 4 bytes left in the file, what the caller of readFrame observes
\* differs from what it observes when the file ends cleanly at the same place.
C8_EndDistinctFromTruncation ==
    (mode = "read" /\ ~cf.fail /\ Len(disk) - cf.pos \in 1..4) =>
        ReadObservation(cf, disk, frameData, isKeyFrame)
            # ReadObservation(cf, Prefix(disk, cf.pos), frameData, isKeyFrame)

\* C9: a readFrame that finds fewer bytes than a complete record needs (fewer than
\* 5 header bytes, or fewer payload bytes than declared) returns false and hands
\* back no record.
C9_NoSuccessOnTruncation ==
    (ret.op = "readFrame" /\ readLog.left >= 0 /\ readLog.left < readLog.need) =>
        ret.val = FALSE

C9_Witness ==
    /\ ret.op = "readFrame" /\ ret.val = FALSE
    /\ Len(disk) = FILE_HEADER_BYTES + 2 /\ readLog.left = 2

\* C10: writeFrame returns false and leaves the file alone unless the instance is
\* open for writing; readFrame returns false and hands back nothing unless the
\* instance is open for reading; whatever opens and closes came before.
C10_ModeExclusive ==
    [][ /\ (ret'.op = "writeFrame" /\ mode # "write") => (ret'.val = FALSE /\ disk' = disk)
        /\ (ret'.op = "readFrame" /\ mode # "read") =>
               (ret'.val = FALSE /\ frameData' = frameData /\ isKeyFrame' = isKeyFrame) ]_vars

C10_Witness ==
    /\ ret.op = "writeFrame" /\ mode = "read" /\ ret.val = FALSE
    /\ Len(disk) >= FILE_HEADER_BYTES /\ Len(written) >= 1

\* C28: when openForWriting or openForReading has returned false, isOpen() is
\* false, and after a failed openForWriting a writeFrame returns false.
C28_FailedOpenLeavesClosed ==
    /\ (ret.op \in {"openForWriting", "openForReading"} /\ ~ret.val) => ~isOpen(cf)
    /\ (ret.op = "openForWriting" /\ ~ret.val) =>
          \A data \in Payloads, key \in BOOLEAN : ~writeFrame(cf, disk, data, key, -1).ret

-----------------------------------------------------------------------------
(* Properties of the codec *)

\* C3: a payload made by compressFrame declares W and H in its first 8 bytes, and
\* decompressFrame under the same factor returns a frame of width W, height H and
\* W*H*3 bytes, for every frame W x H and every factor.
C3_ShapeRoundTrip ==
    (cOut.status # "none" /\ cOut.factor = cIn.factor) =>
        /\ BytesToInt32(SubSeq(cPayload, 1, 4)) = cIn.frame.width
        /\ BytesToInt32(SubSeq(cPayload, 5, 8)) = cIn.frame.height
        /\ cOut.status = "ok"
        /\ cOut.frame.width = cIn.frame.width
        /\ cOut.frame.height = cIn.frame.height
        /\ Len(cOut.frame.data) = cIn.frame.width * cIn.frame.height * 3

\* C13: compressFrame of a W x H frame under factor f returns exactly
\* 8 + (W div f) * (H div f) * 3 bytes: the original W and H as two 4-byte
\* integers, then the bytes of the (W div f) x (H div f) downsampled picture.
C13_PayloadLayout ==
    cIn.factor # 0 =>
        LET W  == cIn.frame.width
            H  == cIn.frame.height
            tw == W \div cIn.factor
            th == H \div cIn.factor
        IN /\ Len(cPayload) = 8 + tw * th * 3
           /\ FromLE(SubSeq(cPayload, 1, 4)) = W
           /\ FromLE(SubSeq(cPayload, 5, 8)) = H
           /\ \A i \in 9..Len(cPayload) : cPayload[i] \in 0..255

\* a 5 x 5 frame was compressed under factor 2: both quotients are rounded down
C13_Witness ==
    /\ cIn.factor = 2
    /\ cIn.frame.width = 5
    /\ cIn.frame.height = 5
    /\ Len(cPayload) = 8 + 2 * 2 * 3
    /\ cOut.status = "none"

\* C25: the frame last compressed and every frame equal to it in width, height
\* and pixels, whatever its kind and sequence number, compress to the same
\* bytes, and a decompressed frame is tagged Key whatever the kind of the frame
\* that was compressed.
C25_TagIsMetadata ==
    /\ cIn.factor # 0 =>
          \A type \in {KEY_FRAME, DELTA_FRAME}, ts \in {0, 3} :
              compressFrame(m_algorithm,
                            Frame(cIn.frame.width, cIn.frame.height, cIn.frame.data, ts, type)
                           ).payload = cPayload
    /\ cOut.status = "ok" => cOut.frame.type = KEY_FRAME

\* a delta frame was compressed and decompressed
C25_Witness ==
    /\ cIn.frame.type = DELTA_FRAME
    /\ cIn.frame.timestamp = 3
    /\ cOut.status = "ok"
    /\ cOut.frame.type = KEY_FRAME
    /\ cOut.frame.data # <<>>

\* every pixel of the picture has the colour of its first pixel
Uniform(data) == \A j \in 1..Len(data) : data[j] = data[((j - 1) % 3) + 1]

\* C26: for a W x H frame of one colour with W div f >= 1, H div f >= 1, W >= 2
\* and H >= 2, decompress of its compressed payload returns a W x H frame whose
\* every pixel has that colour.
C26_UniformColourExact ==
    (/\ cOut.status # "none"
     /\ Uniform(cIn.frame.data)
     /\ CDiv(cIn.frame.width, cIn.factor) >= 1
     /\ CDiv(cIn.frame.height, cIn.factor) >= 1
     /\ cIn.frame.width >= 2
     /\ cIn.frame.height >= 2) =>
        /\ cOut.status = "ok"
        /\ cOut.frame.width = cIn.frame.width
        /\ cOut.frame.height = cIn.frame.height
        /\ cOut.frame.data = cIn.frame.data

\* a 5 x 5 frame of the colour (200, 140, 80) went through the codec at factor 2
C26_Witness ==
    /\ cOut.status = "ok"
    /\ cIn.factor = 2
    /\ cIn.frame.width = 5
    /\ Uniform(cIn.frame.data)
    /\ Len(cOut.frame.data) = 75
    /\ SubSeq(cOut.frame.data, 1, 3) = <<200, 140, 80>>

\* sum / n on doubles
RatioMean(sum, n) ==
    IF sum.den = 0 THEN sum ELSE Ratio(sum.num, sum.den * n)

\* C27: with n compressFrame calls and m decompressFrame calls returned since
\* construction or the last reset(), frames_compressed is n, frames_decompressed
\* is m and average_compression_ratio is the sum of the n per-call ratios
\* divided by n (0 when n = 0); reset() leaves the factor as it was.
C27_Statistics ==
    /\ m_algorithm.frames_compressed = cIn.compressed
    /\ m_algorithm.frames_decompressed = cIn.decompressed
    /\ m_algorithm.average_compression_ratio =
          IF cIn.compressed = 0 THEN Ratio(0, 1) ELSE RatioMean(cIn.ratioSum, cIn.compressed)
    /\ cIn.factor # 0 => m_algorithm.factor = cIn.factor

\* two frames with different ratios were compressed at factor 3 and one was
\* decompressed: the average is neither ratio
C27_Witness ==
    /\ m_algorithm.frames_compressed = 2
    /\ m_algorithm.frames_decompressed = 1
    /\ m_algorithm.factor = 3
    /\ m_algorithm.average_compression_ratio.den > 1
    /\ m_algorithm.average_compression_ratio # RatioMean(cIn.ratioSum, 1)

\* C19: for a frame narrower or lower than the factor compressFrame clamps the
\* target dimensions to 1 x 1: the payload holds at least one pixel and the
\* compression ratio is never computed with a compressed size of 0.
C19_TargetClamped ==
    (cIn.factor # 0 /\ cIn.frame.width >= 1 /\ cIn.frame.height >= 1) =>
        /\ Len(cPayload) >= METADATA_BYTES + 3
        /\ m_algorithm.average_compression_ratio.den # 0

-----------------------------------------------------------------------------
(* Properties of the encode pipeline *)

\* the bytes of a container file behind its 14-byte header
RecordArea(d) == SubSeq(d, FILE_HEADER_BYTES + 1, Len(d))

RECURSIVE ParseRecords(_)
\* the records of a record area, by the file layout: 1 byte frame type (0 = key
\* frame), 4 bytes payload size, payload; bytes that do not make up a whole
\* record are listed as one record of kind "Partial"
ParseRecords(b) ==
    IF Len(b) = 0 THEN <<>>
    ELSE IF Len(b) < HEADER_SIZE \/ Len(b) < RecordNeed(b, 0)
    THEN <<[kind |-> "Partial", payload |-> b]>>
    ELSE <<[kind |-> IF b[1] = 0 THEN "Key" ELSE "Delta",
            payload |-> SubSeq(b, HEADER_SIZE + 1, RecordNeed(b, 0))]>>
         \o ParseRecords(SubSeq(b, RecordNeed(b, 0) + 1, Len(b)))

KindsOf(records) == [i \in 1..Len(records) |-> records[i].kind]

\* C4: in an encode run of a configured pipeline with key_frame_interval k >= 1
\* in which no I/O call fails, the container holds one record per frame read so
\* far, in source order; record i (from 0) carries the payload compress makes of
\* frame i and kind Key iff i % k = 0; when encode() has returned, it returned
\* true and the container holds exactly n records.
C4_EncodeRecords ==
    (/\ enc.pc # "idle"
     /\ ~ioFailed
     /\ m_algorithm # NullAlgorithm
     /\ enc.config.keyFrameInterval >= 1) =>
        LET records == ParseRecords(RecordArea(disk))
            k       == enc.config.keyFrameInterval
        IN /\ enc.pc \in {"extracted", "running", "returned"}
           /\ Len(records) = enc.frameCount
           /\ \A i \in 1..Len(records) :
                 /\ records[i].kind = IF (i - 1) % k = 0 THEN "Key" ELSE "Delta"
                 /\ records[i].payload = PayloadOf(video, enc.config.quality, i - 1)
           /\ enc.pc = "returned" =>
                 /\ enc.returned = "true"
                 /\ Len(records) = Len(video.frames)

\* the 10-frame example has been encoded with k = 5
C4_Witness ==
    /\ enc.pc = "returned"
    /\ enc.returned = "true"
    /\ ~ioFailed
    /\ enc.config.keyFrameInterval = 5
    /\ Len(video.frames) = ExampleFrames
    /\ video.width = 4
    /\ KindsOf(ParseRecords(RecordArea(disk)))
         = <<"Key", "Delta", "Delta", "Delta", "Delta", "Key", "Delta", "Delta", "Delta", "Delta">>

\* C6: when an I/O call of an encode run has failed, encode() returns false.
C6_EncodeFailureFails ==
    (enc.pc = "returned" /\ ioFailed) => enc.returned = "false"

-----------------------------------------------------------------------------
(* Properties of the decode pipeline *)

\* C5: in a decode run over a well-formed container of n records in which no
\* I/O call fails, decompress is called once per record in file order, every
\* decompressed frame is handed to the sink, and when decode() has returned the
\* n records have been decoded, the container and the sink are closed and
\* decode() returned true.
C5_DecodeWellFormed ==
    (/\ source.kind = "wellformed"
     /\ dec.pc # "idle"
     /\ ~ioFailed
     /\ m_algorithm # NullAlgorithm) =>
        /\ dec.pc \in {"running", "processed", "returned"}
        /\ IsPrefix(decLog, source.payloads)
        /\ Len(sinkLog) = Len(decLog)
        /\ \A i \in 1..Len(sinkLog) :
              sinkLog[i] = [cols |-> source.width, rows |-> source.height, accepted |-> TRUE]
        /\ dec.pc = "returned" =>
              /\ decLog = source.payloads
              /\ ~isOpen(cf)
              /\ ~fw.m_isOpen
              /\ dec.returned = "true"

\* C7: when the record loop of a decode run was ended by a truncated record, or
\* the sink rejected a frame, decode() returns false.
C7_DecodeFatal ==
    (/\ dec.pc = "returned"
     /\ dec.endLeft > 0 \/ \E i \in 1..Len(sinkLog) : ~sinkLog[i].accepted) =>
        dec.returned = "false"

\* along one axis, resampling dst positions from a source of src (ratio
\* num / den): every sampled coordinate has 0 <= floor <= ceil <= src - 1
AxisInside(dst, src, num, den) ==
    \A pos \in 0..(dst - 1) :
        LET p == calculateInterpolationParams(pos, num, den, src) IN
        ~p.ub /\ 0 <= p.floor /\ p.floor <= p.ceil /\ p.ceil <= src - 1

\* every write of a resampling into a dw x dh destination lands in its dw*dh*3 bytes
WritesInside(dw, dh) ==
    \A y \in 0..(dh - 1), x \in 0..(dw - 1), c \in 0..2 :
        DestOffset(dw, y, x, c) >= 0 /\ DestOffset(dw, y, x, c) < dw * dh * 3

\* C24: the downsampleBilinear of the last compressFrame (when 1 <= dw <= sw and
\* 1 <= dh <= sh) and the upsampleBilinear of the last decompressFrame (when
\* 1 <= sw <= dw, 1 <= sh <= dh, dw >= 2 and dh >= 2) sample only source
\* coordinates with 0 <= floor <= ceil <= dim - 1 on both axes, read no byte
\* outside the source buffer and write only inside the destination buffer.
C24_ResamplingInBounds ==
    LET f  == cIn.factor
        W  == cIn.frame.width
        H  == cIn.frame.height
        tw == CDiv(W, f)
        th == CDiv(H, f)
    IN
    /\ (f # 0 /\ 1 <= tw /\ 1 <= th) =>
          /\ AxisInside(tw, W, W - 1, tw)
          /\ AxisInside(th, H, H - 1, th)
          /\ WritesInside(tw, th)
          /\ ~downsampleBilinear(cIn.frame.data, W, H, tw, th).ub
          /\ Len(cPayload) = METADATA_BYTES + tw * th * 3
    /\ (f # 0 /\ cOut.status # "none" /\ cOut.factor = f
        /\ 1 <= tw /\ 1 <= th /\ W >= 2 /\ H >= 2) =>
          /\ AxisInside(W, tw, tw - 1, W - 1)
          /\ AxisInside(H, th, th - 1, H - 1)
          /\ WritesInside(W, H)
          /\ cOut.status = "ok"
          /\ Len(cOut.frame.data) = W * H * 3

\* a 5 x 5 frame went through compressFrame and decompressFrame at factor 2:
\* the last destination column samples the last source column
C24_Witness ==
    /\ cOut.status = "ok"
    /\ cIn.factor = 2
    /\ cIn.frame.width = 5
    /\ cIn.frame.height = 5
    /\ calculateInterpolationParams(4, 1, 4, 2).floor = 1

\* the pixel bytes upsampleBilinear reads from a payload announcing w x h when
\* the codec works with this factor: a source of (w div factor) x (h div factor)
SourceBytesRead(w, h, factor) == CDiv(w, factor) * CDiv(h, factor) * 3

\* C23: in a decode run over a container an encoder wrote at any quality, read
\* by a decoder configured at any quality, every decompress reads only offsets
\* inside the payload: 8 + (W div fd) * (H div fd) * 3 is at most the length of
\* the payload, and no call is aborted by a read outside it.
C23_DecompressInsidePayload ==
    (/\ source.kind = "wellformed"
     /\ source.width >= 4
     /\ decLog # <<>>
     /\ m_algorithm # NullAlgorithm) =>
        /\ METADATA_BYTES + SourceBytesRead(source.width, source.height, m_algorithm.factor)
              <= Len(decLog[Len(decLog)])
        /\ dec.pc # "crashed"

-----------------------------------------------------------------------------
(* Properties of the registry *)

\* C14: registerAlgorithm(name, creator) returns false and leaves the map as it
\* was when the name is already registered (the creator bound before stays
\* bound); it returns true and binds creator to name, changing nothing else,
\* only when the name was absent.
C14_RegisterNeverOverwrites ==
    [][call'.op = "registerAlgorithm" =>
         IF call'.name \in DOMAIN m_algorithm_creators
         THEN /\ ~call'.ok
              /\ m_algorithm_creators' = m_algorithm_creators
         ELSE /\ call'.ok
              /\ DOMAIN m_algorithm_creators' = DOMAIN m_algorithm_creators \cup {call'.name}
              /\ m_algorithm_creators'[call'.name] = call'.creator
              /\ \A n \in DOMAIN m_algorithm_creators :
                     m_algorithm_creators'[n] = m_algorithm_creators[n]]_vars

\* a registration was refused for a name bound to another creator, which stays bound
C14_Witness ==
    /\ call.op = "registerAlgorithm"
    /\ ~call.ok
    /\ call.name \in DOMAIN m_algorithm_creators
    /\ m_algorithm_creators[call.name] # call.creator
    /\ Cardinality(DOMAIN m_algorithm_creators) >= 2

\* C15: after any sequence of calls, for every name: isAlgorithmAvailable is
\* true iff createAlgorithm returns a codec iff the last successful
\* registerAlgorithm of the name has not been followed by an unregisterAlgorithm
\* of it (and then the creator of that registration is the one bound);
\* unregisterAlgorithm returns true iff the name was registered and removes that
\* name only; createAlgorithm, getAvailableAlgorithms and isAlgorithmAvailable
\* leave the registry as it is.
C15_RegistryLifecycle ==
    /\ [](\A n \in RegistryNames :
            /\ isAlgorithmAvailable(m_algorithm_creators, n) = (bound[n] # "none")
            /\ (createAlgorithm(m_algorithm_creators, n) # NullAlgorithm) = (bound[n] # "none")
            /\ (bound[n] # "none" => m_algorithm_creators[n] = bound[n]))
    /\ [](call.op = "isAlgorithmAvailable" => call.ok = (bound[call.name] # "none"))
    /\ [](call.op = "createAlgorithm" =>
            (call.created # NullAlgorithm) = (bound[call.name] # "none"))
    /\ [][(call'.op = "unregisterAlgorithm" =>
              /\ call'.ok = (call'.name \in DOMAIN m_algorithm_creators)
              /\ DOMAIN m_algorithm_creators' = DOMAIN m_algorithm_creators \ {call'.name}
              /\ \A n \in DOMAIN m_algorithm_creators' :
                     m_algorithm_creators'[n] = m_algorithm_creators[n])
           /\
           (call'.op \in {"createAlgorithm", "getAvailableAlgorithms", "isAlgorithmAvailable"} =>
              m_algorithm_creators' = m_algorithm_creators)]_vars

\* a name was registered, unregistered and registered again with another
\* creator, and createAlgorithm has just resolved it while another name is unbound
C15_Witness ==
    /\ call.op = "createAlgorithm"
    /\ call.created # NullAlgorithm
    /\ bound[call.name] = "CudaBilinearDownsampleAlgorithm"
    /\ \E n \in RegistryNames : bound[n] = "none"
    /\ \E n \in RegistryNames : bound[n] = "DownsampleAlgorithm"

\* C16: getAvailableAlgorithms returns every registered name exactly once and
\* nothing else, so the length of the list is the number of registered codecs.
C16_ListIsTheRegisteredNames ==
    call.op = "getAvailableAlgorithms" =>
        /\ Len(call.list) = Cardinality(DOMAIN m_algorithm_creators)
        /\ {call.list[i] : i \in 1..Len(call.list)} = DOMAIN m_algorithm_creators

-----------------------------------------------------------------------------
(* Properties of configure *)

\* what a configure() call must have returned and left behind: true exactly
\* when the registry resolves the configured name (initialize always returns
\* true), a codec bound to the pipeline then, and none after a failure
ConfigureContract(configured, config) ==
    configured # "none" =>
        /\ (configured = "true") = isAlgorithmAvailable(m_algorithm_creators, config.algorithmName)
        /\ (configured = "true" => m_algorithm # NullAlgorithm)
        /\ (configured = "false" => m_algorithm = NullAlgorithm)

ClaimedFactor(quality) ==
    LET d == 4 - (quality \div 50) IN IF d < 2 THEN 2 ELSE IF d > 4 THEN 4 ELSE d

\* C12: after initialize(config) the factor is clamp(4 - floor(quality/50), 2, 4):
\* 4 for quality 1..49, 3 for 50..99, 2 for 100, and one of 2, 3, 4 for every
\* quality value.
C12_FactorDerivation ==
    enc.configured = "true" =>
        LET quality == EncoderAlgoConfig(enc.config).quality
            factor  == m_algorithm.factor
        IN /\ factor = ClaimedFactor(quality)
           /\ (quality \in 1..49 => factor = 4)
           /\ (quality \in 50..99 => factor = 3)
           /\ (quality = 100 => factor = 2)
           /\ factor \in {2, 3, 4}

\* a codec was initialized with quality 99 and works with factor 3
C12_Witness ==
    /\ enc.configured = "true"
    /\ enc.config.quality = 99
    /\ m_algorithm.factor = 3
    /\ m_algorithm.frames_compressed > 0

\* C20: every CompressionConfig handed to initialize, and so every configuration
\* the encode loop runs with, has quality in 1..100 and key_frame_interval >= 1.
C20_ConfigInRange ==
    enc.configured = "true" =>
        LET algoConfig == EncoderAlgoConfig(enc.config) IN
        /\ algoConfig.quality \in 1..100
        /\ algoConfig.key_frame_interval >= 1

-----------------------------------------------------------------------------
(* Properties of the GPU codec *)

\* the CPU bilinear codec working with the factor of the last compressFrame
CpuCodec == [NewAlgorithm EXCEPT !.factor = cIn.factor]

\* the payload the CPU codec returns for the frame last compressed
CpuPayload == compressFrame(CpuCodec, cIn.frame).payload

\* the frames the CPU codec may return for the payload last decompressed
CpuFrames == {o.frame : o \in {r \in decompressFrame(CpuCodec, cPayload) : r.status = "ok"}}

\* C17: for the same frame and factor the GPU variant's compressFrame returns
\* the payload of the CPU bilinear codec, and its decompressFrame returns, byte
\* for byte, a frame the CPU codec returns for the same payload.
C17_GpuEqualsCpu ==
    /\ (gpuLog.compress # "none" /\ cOut.status # "crash") => cPayload = CpuPayload
    /\ (gpuLog.decompress # "none" /\ cOut.status = "ok") => cOut.frame \in CpuFrames

\* C18: without a device, and when a device call fails during compressFrame or
\* decompressFrame, the call still returns what the CPU bilinear codec returns,
\* and the process is not aborted.
C18_DegradesToCpu ==
    /\ (/\ gpuLog.compress # "none"
        /\ gpuLog.decompress = "none"
        /\ (~m_cuda_available \/ gpuLog.compress \in DeviceSteps)) =>
           /\ cOut.status # "crash"
           /\ cPayload = CpuPayload
    /\ (/\ gpuLog.decompress # "none"
        /\ (~m_cuda_available \/ gpuLog.decompress \in DeviceSteps)
        /\ \A r \in decompressFrame(CpuCodec, cPayload) : r.status = "ok") =>
           /\ cOut.status = "ok"
           /\ cOut.frame \in CpuFrames

\* the device calls after which the kernel has been launched
LaunchedSteps == {"ok", "kernel", "cudaMemcpy_DeviceToHost"}

\* the destination sizes <<dst_width, dst_height>> of the kernels the last
\* compressFrame and the last decompressFrame launched
KernelLaunches ==
    (IF m_cuda_available /\ gpuLog.compress \in LaunchedSteps
     THEN {<<CDiv(cIn.frame.width, cIn.factor), CDiv(cIn.frame.height, cIn.factor)>>}
     ELSE {})
    \cup
    (IF /\ m_cuda_available
        /\ gpuLog.decompress \in LaunchedSteps
        /\ Len(cPayload) >= METADATA_BYTES
     THEN {<<BytesToInt32(SubSeq(cPayload, 1, 4)), BytesToInt32(SubSeq(cPayload, 5, 8))>>}
     ELSE {})

\* C30: in every kernel launch the grid holds a thread for each destination
\* pixel; a thread with x >= dst_width or y >= dst_height stores nothing, every
\* other thread stores exactly the 3 bytes of pixel (x, y); each byte of dst has
\* exactly one thread storing to it; and the payload a compressFrame on the
\* device returns holds at each offset the byte of that one thread, whatever
\* the order the threads ran in.
C30_ThreadsDoNotRace ==
    \A d \in KernelLaunches :
      LET dst_width  == d[1]
          dst_height == d[2]
          threads    == LaunchThreads(dst_width, dst_height)
          stores(t)  == ThreadStores(t[1], t[2], dst_width, dst_height)
          writers    == {t \in threads : stores(t) # {}}
          bytes      == 0..(dst_width * dst_height * 3 - 1)
      IN /\ (0..(dst_width - 1)) \X (0..(dst_height - 1)) \subseteq threads
         /\ \A t \in threads :
               stores(t) = IF t[1] >= dst_width \/ t[2] >= dst_height THEN {}
                           ELSE {o \in bytes : o \div 3 = t[2] * dst_width + t[1]}
         /\ \A o \in bytes : Cardinality({t \in writers : o \in stores(t)}) = 1
         /\ (/\ gpuLog.compress = "ok"
             /\ gpuLog.decompress = "none"
             /\ d = <<CDiv(cIn.frame.width, cIn.factor), CDiv(cIn.frame.height, cIn.factor)>>) =>
               \A t \in writers, c \in 0..2 :
                  cPayload[METADATA_BYTES + DestOffset(dst_width, t[2], t[1], c) + 1] =
                      KernelThread(cIn.frame.data, cIn.frame.width, cIn.frame.height,
                                   t[1], t[2], c,
                                   cIn.frame.width - 1, dst_width,
                                   cIn.frame.height - 1, dst_height)

\* C30 witness: a downsampling kernel ran in a grid of more than one block,
\* part of whose threads lie outside the destination, and an upsampling
\* kernel ran after it
C30_Witness ==
    /\ m_cuda_available
    /\ gpuLog.compress = "ok"
    /\ gpuLog.decompress = "ok"
    /\ cOut.status = "ok"
    /\ \E d \in KernelLaunches :
          /\ gridSize(d[1]) > 1
          /\ \E t \in LaunchThreads(d[1], d[2]) : ThreadStores(t[1], t[2], d[1], d[2]) = {}

-----------------------------------------------------------------------------
(* Properties of both pipelines *)

\* C21: with keepAudio, encode() has called the audio extraction before the
\* source is opened and before anything is written, and after a failed
\* extraction it returns false with no frame processed; decode() calls the
\* muxing only when every record of the container has been decoded and the
\* container and the sink are closed, nothing is decoded after it, and after a
\* failed muxing decode() returns false.
C21_AudioFirstMuxLast ==
    /\ (enc.config.keepAudio /\ enc.pc # "idle") =>
          /\ enc.audio # "none"
          /\ (fr.m_isOpen \/ isOpen(cf) \/ disk # <<>> \/ enc.framesProcessed > 0
                \/ enc.pc \in {"running", "crashed"}) => enc.audio = "true"
          /\ enc.pc = "extracted" => ~fr.m_isOpen /\ disk = <<>>
          /\ enc.audio = "false" =>
                /\ enc.pc = "returned"
                /\ enc.returned = "false"
                /\ enc.framesProcessed = 0
                /\ m_algorithm.frames_compressed = 0
                /\ ~fr.m_isOpen
                /\ disk = <<>>
    /\ (dec.pc = "processed" \/ dec.muxed # "none") =>
          /\ dec.config.keepAudio
          /\ decLog = source.payloads
          /\ ~isOpen(cf)
          /\ ~fw.m_isOpen
    /\ dec.muxed # "none" => dec.pc = "returned"
    /\ dec.muxed = "false" => dec.returned = "false"
    /\ (dec.config.keepAudio /\ dec.pc = "returned" /\ dec.returned = "true") =>
          dec.muxed = "true"

\* a decode run with keepAudio decoded two records and its muxing failed
C21_Witness ==
    /\ dec.muxed = "false"
    /\ dec.returned = "false"
    /\ Len(decLog) >= 2
    /\ Len(sinkLog) = Len(decLog)

\* C22: a pipeline whose last configure() did not succeed, or that was never
\* configured, does not enter the frame loop: encode() / decode() open no
\* stream, process no frame and return false.
C22_RunsOnlyConfigured ==
    /\ enc.configured # "true" =>
          /\ enc.pc \notin {"running", "crashed"}
          /\ ~fr.m_isOpen
          /\ enc.framesProcessed = 0
          /\ enc.pc = "returned" => enc.returned = "false"
    /\ dec.configured # "true" =>
          /\ dec.pc \notin {"running", "processed", "crashed"}
          /\ ~fw.m_isOpen
          /\ dec.framesProcessed = 0
          /\ dec.pc = "returned" => dec.returned = "false"

\* C29: when processVideo has returned, in the encoder or the decoder, with
\* true or with false, the frame source or sink and the container are closed.
C29_ReleasedOnReturn ==
    /\ enc.pc = "returned" => ~fr.m_isOpen /\ ~isOpen(cf)
    /\ dec.pc \in {"processed", "returned"} => ~fw.m_isOpen /\ ~isOpen(cf)

====
